---- MODULE Spec2Model ----
(***************************************************************************)
(* Object ingestion (PUT) and deletion core of the S3 API server.          *)
(*                                                                         *)
(* The module holds several specifications over one set of variables:      *)
(*   SpecChunker  StreamChunker::next driven over an upstream of chunks    *)
(*   SpecQuota    check_quotas applied to drawn inputs                     *)
(* Variables that a specification does not use keep their idle value.      *)
(***************************************************************************)
EXTENDS Integers, Sequences, FiniteSets, TLC

VARIABLES
    \* ---- StreamChunker (put.rs 542-576) and its driver
    body,        \* the upstream: a sequence of items, Ok(bytes) or Err
    block_size,  \* garage.config.block_size
    chunker,     \* [stream, read_all, buf]: the StreamChunker's fields
    returned,    \* results of the next() calls made so far, in order
    \* ---- check_quotas (put.rs 265-326)
    qin,         \* the inputs of one check_quotas call
    qout,        \* its result, "none" before the call
    \* ---- the replicated object table and what is shared by the requests
    objTable,    \* replica -> key -> row: the replica's merged view
    net,         \* object-table inserts sent to a replica and not yet merged
    next_uuid,   \* gen_uuid(): the next fresh uuid
    \* ---- handle_delete / handle_delete_objects (delete.rs)
    del,         \* the delete request in progress
    \* ---- save_stream (put.rs 89-235)
    req,         \* the PUT request: checksum headers, encryption, bucket quotas
    put,         \* save_stream's position and locals
    cleanup,     \* the task InterruptedCleanup::drop spawns
    issued,      \* every object-table insert sent so far: [key, obj]
    versionTable,   \* the version table: a set of Version rows
    blockRefTable,  \* the block-ref table: a set of BlockRef rows
    blockStore,     \* the hashes of the blocks rpc_put_block stored
    pipe,        \* read_and_put_blocks: its channels and four stages
    \* ---- BlockRefTable on one node (block_ref_table.rs)
    refs,        \* the inserts merged, the hook's last run, the calls it made
    \* ---- ensure_checksum_matches (put.rs 239-262)
    cin,         \* the arguments of one call
    cout         \* its result, "none" before the call

chunkerVars == <<body, block_size, chunker, returned>>
quotaVars == <<qin, qout>>
tableVars == <<objTable, net, next_uuid>>
delVars == <<del>>
putVars == <<req, put, cleanup, issued, versionTable, blockRefTable, blockStore, pipe>>
refVars == <<refs>>
checksumVars == <<cin, cout>>
vars == <<chunkerVars, quotaVars, tableVars, delVars, putVars, refVars, checksumVars>>

\* ------------------------------------------------------------------ bounds
\* longest upstream (number of chunks) and largest chunk (bytes)
MaxChunks == 3
MaxChunkLen == 3
\* largest configured block size
MaxBlockSize == 3
\* largest counter, quota or size value drawn for check_quotas
MaxQuota == 2
\* largest value read from the clock (now_msec)
MaxClock == 3
\* longest key list of a batch delete
MaxBatch == 3
\* INLINE_THRESHOLD (garage_block::manager), scaled down to a few bytes
INLINE_THRESHOLD == 2
\* most updates of the block-ref table of one node
MaxInserts == 4
\* longest Content-MD5 header text drawn (characters)
MaxHeaderLen == 3

\* ----------------------------------------------------------------- helpers
Min(a, b) == IF a < b THEN a ELSE b
Max(a, b) == IF a > b THEN a ELSE b

RECURSIVE SeqSum(_)
SeqSum(s) == IF s = <<>> THEN 0 ELSE Head(s) + SeqSum(Tail(s))

RECURSIVE Concat(_)
Concat(ss) == IF ss = <<>> THEN <<>> ELSE Head(ss) \o Concat(Tail(ss))

\* bytes first..first+n-1: every byte of a body is its position, so that a
\* lost, repeated or reordered byte shows in a comparison
Bytes(first, n) == [i \in 1..n |-> first + i - 1]

None == [tag |-> "None"]
Some(x) == [tag |-> "Some", val |-> x]
OkItem(bytes) == [ok |-> TRUE, bytes |-> bytes]
ErrItem == [ok |-> FALSE, bytes |-> <<>>]

\* ------------------------------------------------------------ StreamChunker
\* StreamChunker::new
StreamChunker_new(stream) == [stream |-> stream, read_all |-> FALSE, buf |-> <<>>]

\* BytesBuf::take_max(n): the first min(n, len) bytes leave the buffer
take_max(buf, n) == SubSeq(buf, 1, Min(n, Len(buf)))
after_take_max(buf, n) == SubSeq(buf, Min(n, Len(buf)) + 1, Len(buf))

\* the loop of next(): pull upstream items until the buffer holds a block or
\* the upstream ended; an upstream error leaves through `?`
RECURSIVE chunker_fill(_, _)
chunker_fill(c, bs) ==
    IF ~c.read_all /\ Len(c.buf) < bs
    THEN IF c.stream = <<>>
         THEN chunker_fill([c EXCEPT !.read_all = TRUE], bs)
         ELSE LET item == Head(c.stream)
                  rest == [c EXCEPT !.stream = Tail(c.stream)]
              IN  IF item.ok
                  THEN chunker_fill([rest EXCEPT !.buf = c.buf \o item.bytes], bs)
                  ELSE [c |-> rest, err |-> TRUE]
    ELSE [c |-> c, err |-> FALSE]

\* a next() that pulls at most one upstream item (`if` for `while`)
StreamChunker_next_single_pull(c, bs) ==
    LET c1 == IF ~c.read_all /\ Len(c.buf) < bs
              THEN IF c.stream = <<>>
                   THEN [c EXCEPT !.read_all = TRUE]
                   ELSE [c EXCEPT !.stream = Tail(c.stream),
                                  !.buf = c.buf \o Head(c.stream).bytes]
              ELSE c
    IN  IF c1.buf = <<>>
        THEN [c |-> c1, res |-> "Ok", block |-> None]
        ELSE [c |-> [c1 EXCEPT !.buf = after_take_max(c1.buf, bs)],
              res |-> "Ok", block |-> Some(take_max(c1.buf, bs))]

\* StreamChunker::next: Err, Ok(None) or Ok(Some(block))
StreamChunker_next(c, bs) ==
    LET f == chunker_fill(c, bs)
    IN  IF f.err
        THEN [c |-> f.c, res |-> "Err", block |-> None]
        ELSE IF f.c.buf = <<>>
             THEN [c |-> f.c, res |-> "Ok", block |-> None]
             ELSE [c |-> [f.c EXCEPT !.buf = after_take_max(f.c.buf, bs)],
                   res |-> "Ok", block |-> Some(take_max(f.c.buf, bs))]

\* upstreams: every sequence of at most MaxChunks items, a chunk of 0 to
\* MaxChunkLen bytes or an error; the bytes are numbered through the body
ChunkShapes == UNION {[1..n -> (0..MaxChunkLen) \cup {-1}] : n \in 0..MaxChunks}

RECURSIVE BodyOf(_, _)
BodyOf(shape, first) ==
    IF shape = <<>> THEN <<>>
    ELSE IF Head(shape) = -1
         THEN <<ErrItem>> \o BodyOf(Tail(shape), first)
         ELSE <<OkItem(Bytes(first, Head(shape)))>>
                  \o BodyOf(Tail(shape), first + Head(shape))

Bodies == {BodyOf(s, 1) : s \in ChunkShapes}

\* the bytes of an upstream, read to its first error
RECURSIVE BodyBytes(_)
BodyBytes(b) ==
    IF b = <<>> \/ ~Head(b).ok THEN <<>> ELSE Head(b).bytes \o BodyBytes(Tail(b))

ErrorFree(b) == \A i \in 1..Len(b) : b[i].ok

ChunkerIdle ==
    /\ body = <<>>
    /\ block_size = 1
    /\ chunker = StreamChunker_new(<<>>)
    /\ returned = <<>>

InitChunker ==
    /\ body \in Bodies
    /\ block_size \in 1..MaxBlockSize
    /\ chunker = StreamChunker_new(body)
    /\ returned = <<>>

\* the last call returned Ok(None) or Err
ChunkerEnded ==
    IF returned = <<>> THEN FALSE
    ELSE LET last == returned[Len(returned)]
         IN  last.res = "Err" \/ last.block = None

\* one call of next() by the chunker's user; the calls stop after Ok(None)
\* (read_blocks breaks on Ok(None) and on Err)
ChunkerCall ==
    /\ ~ChunkerEnded
    /\ LET r == StreamChunker_next(chunker, block_size)
       IN  /\ chunker' = r.c
           /\ returned' = Append(returned, [res |-> r.res, block |-> r.block])
    /\ UNCHANGED <<body, block_size>>

\* ------------------------------------------------------------- object table
Replicas == {"r1", "r2"}
Keys == {"k1", "k2"}
\* the key of the request under study
PutKey == "k1"
ZeroUuid == 0

\* ObjectVersionState and ObjectVersionData
Uploading == [st |-> "Uploading"]
Aborted == [st |-> "Aborted"]
Complete(data) == [st |-> "Complete", data |-> data]
DeleteMarker == [kind |-> "DeleteMarker"]
Inline(size, bytes) == [kind |-> "Inline", size |-> size, bytes |-> bytes]
FirstBlock(size, hash) == [kind |-> "FirstBlock", size |-> size, hash |-> hash]

ObjectVersion(uuid, timestamp, state) ==
    [uuid |-> uuid, timestamp |-> timestamp, state |-> state]

\* a row of the object table: absent, or an Object with its versions
NoRow == [present |-> FALSE, versions |-> {}]
Object(versions) == [present |-> TRUE, versions |-> versions]

\* the state lattice: Uploading loses to both others, Aborted overrides only a
\* state that is not Complete, Complete is terminal
StateRank(s) ==
    CASE s.st = "Uploading" -> 0
      [] s.st = "Aborted" -> 1
      [] s.st = "Complete" -> 2

MergeState(self, other) == IF StateRank(other) > StateRank(self) THEN other ELSE self

\* Object merge: the union of the versions over (uuid, timestamp), the states
\* of one version joined
SameVersion(v, w) == v.uuid = w.uuid /\ v.timestamp = w.timestamp

MergeVersions(self, other) ==
    {IF \E w \in other : SameVersion(v, w)
     THEN [v EXCEPT !.state = MergeState(v.state, (CHOOSE w \in other : SameVersion(v, w)).state)]
     ELSE v : v \in self}
        \cup {w \in other : ~\E v \in self : SameVersion(v, w)}

MergeRow(row, obj) ==
    IF ~obj.present THEN row
    ELSE Object(MergeVersions(row.versions, obj.versions))

RECURSIVE MergeRows(_)
MergeRows(rows) ==
    IF rows = {} THEN NoRow
    ELSE LET r == CHOOSE x \in rows : TRUE
         IN  MergeRow(MergeRows(rows \ {r}), r)

\* (timestamp, uuid) order of the version list
VersionBefore(v, w) ==
    v.timestamp < w.timestamp \/ (v.timestamp = w.timestamp /\ v.uuid < w.uuid)

\* Object::versions(): the versions in ascending (timestamp, uuid) order
RECURSIVE versions(_)
versions(vs) ==
    IF vs = {} THEN <<>>
    ELSE LET first == CHOOSE v \in vs : \A w \in vs \ {v} : VersionBefore(v, w)
         IN  <<first>> \o versions(vs \ {first})

\* object_table.get: the merged view of the replicas that answer the read
TableGet(k, Q) ==
    LET row == MergeRows({objTable[r][k] : r \in Q})
    IN  IF row.present THEN Some(row) ELSE None

ReadSets == (SUBSET Replicas) \ {{}}

\* object_table.insert: one message per replica
InsertMsgs(k, obj) == {[to |-> r, key |-> k, obj |-> obj] : r \in Replicas}

\* a replica merges an insert it received
Deliver ==
    \E m \in net :
        /\ objTable' = [objTable EXCEPT ![m.to][m.key] = MergeRow(@, m.obj)]
        /\ net' = net \ {m}
        /\ UNCHANGED next_uuid

TableIdle ==
    /\ objTable = [r \in Replicas |-> [k \in Keys |-> NoRow]]
    /\ net = {}
    /\ next_uuid = 1

PutIdleNoIssued ==
    /\ req = None
    /\ put = None
    /\ cleanup = "none"
    /\ versionTable = {}
    /\ blockRefTable = {}
    /\ blockStore = {}
    /\ pipe = None

PutIdle == PutIdleNoIssued /\ issued = {}

\* ---------------------------------------------------------- next_timestamp
\* a next_timestamp that may repeat the newest timestamp
next_timestamp_no_increment(existing_object, now) ==
    IF existing_object = None \/ existing_object.val.versions = {}
    THEN now
    ELSE LET ts == {v.timestamp : v \in existing_object.val.versions}
             t == CHOOSE x \in ts : \A y \in ts : y <= x
         IN  Max(t, now)

\* next_timestamp with the clock's reading passed in
next_timestamp(existing_object, now) ==
    IF existing_object = None \/ existing_object.val.versions = {}
    THEN now
    ELSE LET ts == {v.timestamp : v \in existing_object.val.versions}
             t == CHOOSE x \in ts : \A y \in ts : y <= x
         IN  Max(t + 1, now)

\* ------------------------------------------------------------- check_quotas
QuotaIdle ==
    /\ qin = None
    /\ qout = "none"

\* the sizes recorded in the Complete versions of an object that hold data
RECURSIVE TotalSize(_)
TotalSize(vs) ==
    IF vs = {} THEN 0
    ELSE LET v == CHOOSE x \in vs : TRUE
         IN  (IF v.state.st = "Complete" /\ v.state.data.kind # "DeleteMarker"
              THEN v.state.data.size ELSE 0) + TotalSize(vs \ {v})

\* Object::counts() of the previous object, as the quota section describes it:
\* one object, and its total size
counts(o) == [objects |-> 1, bytes |-> TotalSize(o.versions)]

\* check_quotas with a > 0 guard left out of the object test
check_quotas_unguarded(size, prev_object, quotas, counters) ==
    IF quotas.max_objects = None /\ quotas.max_size = None THEN "Ok"
    ELSE IF ~counters.ok THEN "Err"
    ELSE LET prev_cnt_obj == IF prev_object = None THEN 0 ELSE counts(prev_object.val).objects
             prev_cnt_size == IF prev_object = None THEN 0 ELSE counts(prev_object.val).bytes
             cnt_obj_diff == 1 - prev_cnt_obj
             cnt_size_diff == size - prev_cnt_size
         IN  IF /\ quotas.max_objects # None
                /\ counters.objects + cnt_obj_diff > quotas.max_objects.val
             THEN "Forbidden"
             ELSE IF /\ quotas.max_size # None
                     /\ cnt_size_diff > 0
                     /\ counters.bytes + cnt_size_diff > quotas.max_size.val
                  THEN "Forbidden"
                  ELSE "Ok"

\* check_quotas: "Ok", "Forbidden", or "Err" when the counter table read fails.
\* counters is the read's outcome: failed, or the filtered values (a missing
\* counter reads as 0)
check_quotas(size, prev_object, quotas, counters) ==
    IF quotas.max_objects = None /\ quotas.max_size = None THEN "Ok"
    ELSE IF ~counters.ok THEN "Err"
    ELSE LET prev_cnt_obj == IF prev_object = None THEN 0 ELSE counts(prev_object.val).objects
             prev_cnt_size == IF prev_object = None THEN 0 ELSE counts(prev_object.val).bytes
             cnt_obj_diff == 1 - prev_cnt_obj
             cnt_size_diff == size - prev_cnt_size
         IN  IF /\ quotas.max_objects # None
                /\ cnt_obj_diff > 0
                /\ counters.objects + cnt_obj_diff > quotas.max_objects.val
             THEN "Forbidden"
             ELSE IF /\ quotas.max_size # None
                     /\ cnt_size_diff > 0
                     /\ counters.bytes + cnt_size_diff > quotas.max_size.val
                  THEN "Forbidden"
                  ELSE "Ok"

OptNat(n) == {None} \cup {Some(x) : x \in 0..n}
CounterValues ==
    {[ok |-> FALSE, objects |-> 0, bytes |-> 0]}
        \cup [ok : {TRUE}, objects : -1..MaxQuota + 1, bytes : -1..MaxQuota + 1]
PrevObjects ==
    {None} \cup {Some(Object({ObjectVersion(101, 1, Complete(FirstBlock(sz, <<>>)))}))
                   : sz \in 0..MaxQuota}
QuotaSets == [max_objects : OptNat(MaxQuota), max_size : OptNat(MaxQuota)]

InitQuota ==
    /\ qin \in [size : 0..MaxQuota, prev_object : PrevObjects,
                quotas : QuotaSets, counters : CounterValues]
    /\ qout = "none"

QuotaCall ==
    /\ qout = "none"
    /\ qout' = check_quotas(qin.size, qin.prev_object, qin.quotas, qin.counters)
    /\ UNCHANGED qin


\* ------------------------------------------------------------------- delete
OkResult(v) == [ok |-> TRUE, val |-> v, err |-> ""]
ErrResult(e) == [ok |-> FALSE, val |-> <<>>, err |-> e]

\* a report of the newest version whatever its state
deleted_version_newest(object) ==
    LET vs == versions(object.versions)
    IN  IF vs # <<>> THEN vs[Len(vs)].uuid ELSE ZeroUuid

\* the version handle_delete_internal reports as deleted: the newest version
\* that is not Aborted, else the newest version, else the zero uuid
deleted_version(object) ==
    LET vs == versions(object.versions)
        live == SelectSeq(vs, LAMBDA v : v.state # Aborted)
    IN  IF live # <<>> THEN live[Len(live)].uuid
        ELSE IF vs # <<>> THEN vs[Len(vs)].uuid
        ELSE ZeroUuid

\* a handle_delete that turns every error into an error response
handle_delete_strict(result) ==
    IF result.ok THEN "204 NoContent" ELSE result.err

\* handle_delete: the response for the internal delete's result
handle_delete(result) ==
    IF result.ok \/ result.err = "NoSuchKey" THEN "204 NoContent" ELSE result.err

\* a batch loop that stops at the first failing key
handle_delete_objects_item_stop(d, result) ==
    LET key == d.keys[d.i]
        listed ==
            IF result.ok
            THEN IF d.quiet THEN d
                 ELSE [d EXCEPT !.ret_deleted = Append(@,
                          [key |-> key, version_id |-> result.val[1],
                           delete_marker_version_id |-> result.val[2]])]
            ELSE [d EXCEPT !.ret_errors = Append(@,
                     [code |-> result.err, key |-> key, message |-> result.err])]
    IN  IF d.i < Len(d.keys) /\ result.ok
        THEN [listed EXCEPT !.i = d.i + 1, !.pc = "get"]
        ELSE [listed EXCEPT !.pc = "done", !.response = "DeleteResult"]

\* handle_delete_objects: one turn of the loop over cmd.objects, given the
\* internal delete's result for the current key
handle_delete_objects_item(d, result) ==
    LET key == d.keys[d.i]
        listed ==
            IF result.ok
            THEN IF d.quiet THEN d
                 ELSE [d EXCEPT !.ret_deleted = Append(@,
                          [key |-> key, version_id |-> result.val[1],
                           delete_marker_version_id |-> result.val[2]])]
            ELSE [d EXCEPT !.ret_errors = Append(@,
                     [code |-> result.err, key |-> key, message |-> result.err])]
    IN  IF d.i < Len(d.keys)
        THEN [listed EXCEPT !.i = d.i + 1, !.pc = "get"]
        ELSE [listed EXCEPT !.pc = "done", !.response = "DeleteResult"]

\* handle_delete_internal returned `result` for the current key
DeleteReturn(d, result) ==
    LET logged == [d EXCEPT !.results = Append(@, [key |-> d.keys[d.i], result |-> result])]
    IN  IF d.mode = "single"
        THEN [logged EXCEPT !.pc = "done", !.response = handle_delete(result)]
        ELSE handle_delete_objects_item(logged, result)

NoDelete ==
    [mode |-> "none", keys |-> <<>>, quiet |-> FALSE, i |-> 0, pc |-> "done",
     object |-> None, now |-> 0, del_uuid |-> ZeroUuid, del_timestamp |-> 0,
     deleted_version |-> ZeroUuid, ret_deleted |-> <<>>, ret_errors |-> <<>>,
     results |-> <<>>, response |-> "none"]

DelIdle == del = NoDelete

DelRequest(mode, keys, quiet) ==
    [mode |-> mode, keys |-> keys, quiet |-> quiet, i |-> 1, pc |-> "get",
     object |-> None, now |-> 0, del_uuid |-> ZeroUuid, del_timestamp |-> 0,
     deleted_version |-> ZeroUuid, ret_deleted |-> <<>>, ret_errors |-> <<>>,
     results |-> <<>>, response |-> "none"]

\* a marker dated at the epoch
DeleteMarkerObject_epoch(del_uuid, del_timestamp) ==
    Object({ObjectVersion(del_uuid, 0, Complete(DeleteMarker))})

\* the Object handle_delete_internal inserts
DeleteMarkerObject(del_uuid, del_timestamp) ==
    Object({ObjectVersion(del_uuid, del_timestamp, Complete(DeleteMarker))})

\* handle_delete_internal, to its second await: the read of the object, and
\* for an object that exists the delete marker's insert, sent
DeleteGet ==
    /\ del.pc = "get"
    /\ \/ /\ del' = DeleteReturn(del, ErrResult("InternalError"))
          /\ UNCHANGED <<tableVars, issued>>
       \/ \E Q \in ReadSets :
            LET key == del.keys[del.i]
                got == TableGet(key, Q)
            IN  IF got = None
                THEN /\ del' = DeleteReturn(del, ErrResult("NoSuchKey"))
                     /\ UNCHANGED <<tableVars, issued>>
                ELSE \E now \in 1..MaxClock :
                       LET ts == next_timestamp(got, now)
                           marker == DeleteMarkerObject(next_uuid, ts)
                       IN  /\ del' = [del EXCEPT !.pc = "insert", !.object = got,
                                          !.now = now, !.del_uuid = next_uuid,
                                          !.del_timestamp = ts,
                                          !.deleted_version = deleted_version(got.val)]
                           /\ net' = net \cup InsertMsgs(key, marker)
                           /\ issued' = issued \cup {[key |-> key, obj |-> marker]}
                           /\ next_uuid' = next_uuid + 1
                           /\ UNCHANGED objTable

\* handle_delete_internal, from its second await: the insert's outcome
DeleteInsert ==
    /\ del.pc = "insert"
    /\ \/ del' = DeleteReturn(del, OkResult(<<del.deleted_version, del.del_uuid>>))
       \/ del' = DeleteReturn(del, ErrResult("InternalError"))
    /\ UNCHANGED <<tableVars, issued>>

\* the rows a key may hold when the request arrives
StoredRows ==
    {NoRow,
     Object({ObjectVersion(101, 1, Complete(Inline(0, <<>>)))}),
     Object({ObjectVersion(101, 1, Complete(Inline(0, <<>>))),
             ObjectVersion(102, 2, Aborted)})}

\* the rows one replica may hold of a key about to be deleted: also a row of
\* Aborted versions only, and a row whose version list is empty
DeleteRows ==
    StoredRows \cup
        {Object({ObjectVersion(101, 1, Aborted), ObjectVersion(102, 2, Aborted)}),
         Object({ObjectVersion(101, 1, Uploading), ObjectVersion(102, 2, Aborted)}),
         Object({})}

\* one handle_delete of a key whose replicas need not agree yet
InitDeleteOne ==
    /\ \E row1, row2 \in DeleteRows :
           objTable = [r \in Replicas |->
                          [k \in Keys |-> IF k # PutKey THEN NoRow
                                          ELSE IF r = "r1" THEN row1 ELSE row2]]
    /\ net = {}
    /\ issued = {}
    /\ next_uuid = 1
    /\ del = DelRequest("single", <<PutKey>>, FALSE)

KeyLists == UNION {[1..n -> Keys] : n \in 1..MaxBatch}

InitDelete ==
    /\ \E rows \in [Keys -> StoredRows] :
           objTable = [r \in Replicas |-> rows]
    /\ net = {}
    /\ issued = {}
    /\ next_uuid = 1
    /\ \/ \E k \in Keys : del = DelRequest("single", <<k>>, FALSE)
       \/ \E ks \in KeyLists, quiet \in BOOLEAN : del = DelRequest("batch", ks, quiet)

\* ------------------------------------------------------------------ digests
\* a digest is the bytes it was computed over, tagged: two digests are equal
\* exactly when the bytes are
md5(bytes) == [md5 |-> bytes]
sha256sum(bytes) == [sha256 |-> bytes]
async_blake2sum(bytes) == [blake2 |-> bytes]

\* header text: a sequence of characters, a double quote or a base64 text
QuoteChar == [ch |-> "quote"]
BASE64_STANDARD_encode(digest) == <<[ch |-> "b64", of |-> digest]>>

RECURSIVE trim_start(_)
trim_start(str) ==
    IF str # <<>> /\ Head(str) = QuoteChar THEN trim_start(Tail(str)) ELSE str

RECURSIVE trim_end(_)
trim_end(str) ==
    IF str # <<>> /\ str[Len(str)] = QuoteChar
    THEN trim_end(SubSeq(str, 1, Len(str) - 1))
    ELSE str

\* str::trim_matches('"')
trim_matches(str) == trim_end(trim_start(str))

\* a check of the MD5 expectation before the SHA-256 one
ensure_checksum_matches_md5_first(data_md5sum, data_sha256sum, content_md5, content_sha256) ==
    IF /\ content_md5 # None
       /\ trim_matches(content_md5.val) # BASE64_STANDARD_encode(data_md5sum)
    THEN "BadRequest: Unable to validate content-md5"
    ELSE IF content_sha256 # None /\ content_sha256.val # data_sha256sum
         THEN "BadRequest: Unable to validate x-amz-content-sha256"
         ELSE "Ok"

\* ensure_checksum_matches: "Ok" or the BadRequest it returns
ensure_checksum_matches(data_md5sum, data_sha256sum, content_md5, content_sha256) ==
    IF content_sha256 # None /\ content_sha256.val # data_sha256sum
    THEN "BadRequest: Unable to validate x-amz-content-sha256"
    ELSE IF /\ content_md5 # None
            /\ trim_matches(content_md5.val) # BASE64_STANDARD_encode(data_md5sum)
         THEN "BadRequest: Unable to validate content-md5"
         ELSE "Ok"

ChecksumIdle == cin = None /\ cout = "none"

\* the header texts a client may send: quotes and base64 texts in any order
HeaderChars(data) ==
    {QuoteChar} \cup {BASE64_STANDARD_encode(md5(d))[1] : d \in {data, <<0>>}}

HeaderTexts(data) == UNION {[1..n -> HeaderChars(data)] : n \in 0..MaxHeaderLen}

InitChecksum ==
    /\ \E data \in {<<>>, <<1>>, <<1, 2>>} :
       \E m \in {None} \cup {Some(t) : t \in HeaderTexts(data)} :
       \E h \in {None, Some(sha256sum(data)), Some(sha256sum(<<0>>))} :
           cin = [data_md5sum |-> md5(data), data_sha256sum |-> sha256sum(data),
                  content_md5 |-> m, content_sha256 |-> h]
    /\ cout = "none"

ChecksumCall ==
    /\ cout = "none"
    /\ cout' = ensure_checksum_matches(cin.data_md5sum, cin.data_sha256sum,
                                        cin.content_md5, cin.content_sha256)
    /\ UNCHANGED cin

\* --------------------------------------------------------- EncryptionParams
is_encrypted(encryption) == encryption = "SseC"
\* encrypt_blob and encrypt_block: the sealed bytes; plain data is stored as is
encrypt_blob(encryption, bytes) ==
    IF is_encrypted(encryption) THEN <<[sealed |-> bytes]>> ELSE bytes
encrypt_block(encryption, bytes) == encrypt_blob(encryption, bytes)
\* what a reader of the stored bytes gets back
decrypt(encryption, stored) ==
    IF is_encrypted(encryption) THEN stored[1].sealed ELSE stored
etag_from_md5(encryption, digest) == [etag |-> digest, sse |-> is_encrypted(encryption)]

\* -------------------------------------------------------------- save_stream

\* the Objects save_stream and the cleanup task insert
InlineObject(uuid, timestamp, size, inline_data) ==
    Object({ObjectVersion(uuid, timestamp, Complete(Inline(size, inline_data)))})

UploadingObject(uuid, timestamp) == Object({ObjectVersion(uuid, timestamp, Uploading)})

\* a final insert under a timestamp of its own
CompleteObject_new_timestamp(uuid, timestamp, size, first_block_hash) ==
    Object({ObjectVersion(uuid, timestamp + 1, Complete(FirstBlock(size, first_block_hash)))})

CompleteObject(uuid, timestamp, size, first_block_hash) ==
    Object({ObjectVersion(uuid, timestamp, Complete(FirstBlock(size, first_block_hash)))})

AbortedObject(uuid, timestamp) == Object({ObjectVersion(uuid, timestamp, Aborted)})

\* Version::new: the row with an empty block list
Version_new(uuid) == [uuid |-> uuid, deleted |-> FALSE, blocks |-> {}]

\* Version merge: deleted is or-ed, the block map grows
MergeVersionRow(table, row) ==
    IF \E x \in table : x.uuid = row.uuid
    THEN {IF x.uuid = row.uuid
          THEN [x EXCEPT !.deleted = @ \/ row.deleted, !.blocks = @ \cup row.blocks]
          ELSE x : x \in table}
    ELSE table \cup {row}

\* InterruptedCleanup: "unarmed" before it exists, "armed" while it holds
\* Some(inner), "cancelled" after cancel(), "fired" once drop spawned the task
InterruptedCleanup_cancel(guard) == "cancelled"

\* a drop that spawns nothing
InterruptedCleanup_drop_forgets(guard) == IF guard = "armed" THEN "cancelled" ELSE guard

InterruptedCleanup_drop(guard) == IF guard = "armed" THEN "fired" ELSE guard

PutStart ==
    [pc |-> "first_block", first_block |-> <<>>, existing |-> None, now |-> 0,
     version_uuid |-> ZeroUuid, version_timestamp |-> 0, guard |-> "unarmed",
     result |-> "none", total_size |-> 0, data_md5sum |-> None,
     first_block_hash |-> None, etag |-> None]

\* object_table.insert(&object): sent to every replica
SendInsert(k, obj) ==
    /\ net' = net \cup InsertMsgs(k, obj)
    /\ issued' = issued \cup {[key |-> k, obj |-> obj]}

\* save_stream ends with `result`: its locals drop, the guard among them
PutReturn(p, result) ==
    /\ put' = [p EXCEPT !.pc = "done", !.result = result,
                        !.guard = InterruptedCleanup_drop(p.guard)]
    /\ cleanup' = IF InterruptedCleanup_drop(p.guard) = "fired" /\ p.guard = "armed"
                  THEN "spawned" ELSE cleanup
    /\ pipe' = None

\* lines 102-183: the first block and the existing object arrive; the version
\* gets its identity; a short first block is checked on the spot, a long one
\* arms the guard and sends the Uploading insert
PutFirstBlock ==
    /\ put.pc = "first_block"
    /\ LET r == StreamChunker_next(chunker, block_size)
       IN  /\ chunker' = r.c
           /\ \/ /\ r.res = "Err"
                 /\ PutReturn(put, "BadRequest: body")
                 /\ UNCHANGED <<tableVars, issued>>
              \/ /\ PutReturn(put, "InternalError")
                 /\ UNCHANGED <<tableVars, issued>>
              \/ /\ r.res = "Ok"
                 /\ \E Q \in ReadSets, now \in 1..MaxClock :
                      LET existing == TableGet(PutKey, Q)
                          first_block == IF r.block = None THEN <<>> ELSE r.block.val
                          ts == next_timestamp(existing, now)
                          p1 == [put EXCEPT !.first_block = first_block,
                                            !.existing = existing, !.now = now,
                                            !.version_uuid = next_uuid,
                                            !.version_timestamp = ts]
                          chk == ensure_checksum_matches(
                                     md5(first_block), sha256sum(first_block),
                                     req.content_md5, req.content_sha256)
                      IN  /\ next_uuid' = next_uuid + 1
                          /\ IF Len(first_block) < INLINE_THRESHOLD
                             THEN /\ IF chk # "Ok"
                                     THEN PutReturn(p1, chk)
                                     ELSE /\ put' = [p1 EXCEPT !.pc = "inline_quota"]
                                          /\ UNCHANGED <<cleanup, pipe>>
                                  /\ UNCHANGED <<objTable, net, issued>>
                             ELSE /\ put' = [p1 EXCEPT !.pc = "uploading_insert",
                                                       !.guard = "armed"]
                                  /\ SendInsert(PutKey, UploadingObject(next_uuid, ts))
                                  /\ UNCHANGED <<objTable, cleanup, pipe>>
    /\ UNCHANGED <<body, block_size, returned, req, versionTable, blockRefTable, blockStore>>

\* lines 132-152: the inline branch's quota check, then its single insert sent
PutInlineQuota ==
    /\ put.pc = "inline_quota"
    /\ LET size == Len(put.first_block)
           q == check_quotas(size, put.existing, req.quotas, req.counters)
           etag == etag_from_md5(req.encryption, md5(put.first_block))
           inline_data == encrypt_blob(req.encryption, put.first_block)
       IN  IF q # "Ok"
           THEN PutReturn(put, q) /\ UNCHANGED <<net, issued>>
           ELSE \/ /\ is_encrypted(req.encryption)
                   /\ PutReturn(put, "InternalError")
                   /\ UNCHANGED <<net, issued>>
                \/ /\ put' = [put EXCEPT !.pc = "inline_insert", !.etag = Some(etag),
                                         !.total_size = size]
                   /\ SendInsert(PutKey, InlineObject(put.version_uuid,
                                     put.version_timestamp, size, inline_data))
                   /\ UNCHANGED <<cleanup, pipe>>
    /\ UNCHANGED <<chunkerVars, objTable, next_uuid, req, versionTable,
                   blockRefTable, blockStore>>

\* lines 152-158: the inline insert's outcome
PutInlineInsert ==
    /\ put.pc = "inline_insert"
    /\ \/ PutReturn(put, "Ok")
       \/ PutReturn(put, "InternalError")
    /\ UNCHANGED <<chunkerVars, tableVars, req, issued, versionTable,
                   blockRefTable, blockStore>>

\* lines 183-197: the Uploading insert's outcome; the Version insert is sent
PutUploadingInsert ==
    /\ put.pc = "uploading_insert"
    /\ \/ put' = [put EXCEPT !.pc = "version_insert"] /\ UNCHANGED <<cleanup, pipe>>
       \/ PutReturn(put, "InternalError")
    /\ UNCHANGED <<chunkerVars, tableVars, req, issued, versionTable,
                   blockRefTable, blockStore>>

\* the state read_and_put_blocks starts from: three empty channels, the first
\* block in the reader's hands
PipeStart(first_block) ==
    [rd |-> [st |-> "send", item |-> OkItem(first_block)],
     ch1 |-> <<>>, tx1 |-> TRUE,
     hs |-> [st |-> "recv", item |-> None, hashed |-> <<>>],
     ch2 |-> <<>>, tx2 |-> TRUE,
     en |-> [st |-> "recv", item |-> None, first_block_hash |-> None],
     ch3 |-> <<>>, tx3 |-> TRUE,
     wr |-> [st |-> "loop", futs |-> <<>>, written_bytes |-> 0, res |-> "none"]]

\* a save_stream that goes on whatever the Version insert's outcome
PutVersionInsert_ignores_failure ==
    /\ put.pc = "version_insert"
    /\ put' = [put EXCEPT !.pc = "pipeline"]
    /\ pipe' = PipeStart(put.first_block)
    /\ \/ versionTable' = MergeVersionRow(versionTable, Version_new(put.version_uuid))
       \/ UNCHANGED versionTable
    /\ UNCHANGED <<chunkerVars, tableVars, req, issued, blockRefTable, blockStore, cleanup>>

\* lines 197-201: the Version insert's outcome; read_and_put_blocks starts
PutVersionInsert ==
    /\ put.pc = "version_insert"
    /\ \/ /\ put' = [put EXCEPT !.pc = "pipeline"]
          /\ versionTable' = MergeVersionRow(versionTable, Version_new(put.version_uuid))
          /\ pipe' = PipeStart(put.first_block)
          /\ UNCHANGED cleanup
       \/ /\ PutReturn(put, "InternalError")
          /\ UNCHANGED versionTable
    /\ UNCHANGED <<chunkerVars, tableVars, req, issued, blockRefTable, blockStore>>

\* what read_and_put_blocks returns
OkPipe(total_size, data_md5sum, data_sha256sum, first_block_hash) ==
    [ok |-> TRUE, total_size |-> total_size, data_md5sum |-> data_md5sum,
     data_sha256sum |-> data_sha256sum, first_block_hash |-> first_block_hash,
     err |-> "none"]
ErrPipe(err) ==
    [ok |-> FALSE, total_size |-> 0, data_md5sum |-> None, data_sha256sum |-> None,
     first_block_hash |-> None, err |-> err]

\* a save_stream that does not verify the digests
AfterPipeline_unverified(res) ==
    IF ~res.ok
    THEN PutReturn(put, res.err)
    ELSE /\ put' = [put EXCEPT !.pc = "final_quota",
                               !.total_size = res.total_size,
                               !.data_md5sum = Some(res.data_md5sum),
                               !.first_block_hash = Some(res.first_block_hash)]
         /\ pipe' = None
         /\ UNCHANGED cleanup

\* lines 200-208: the `?` on read_and_put_blocks, then the checksum check
AfterPipeline(res) ==
    LET chk == ensure_checksum_matches(res.data_md5sum, res.data_sha256sum,
                                       req.content_md5, req.content_sha256)
    IN  IF ~res.ok
        THEN PutReturn(put, res.err)
        ELSE IF chk # "Ok"
             THEN PutReturn(put, chk)
             ELSE /\ put' = [put EXCEPT !.pc = "final_quota",
                                        !.total_size = res.total_size,
                                        !.data_md5sum = Some(res.data_md5sum),
                                        !.first_block_hash = Some(res.first_block_hash)]
                  /\ pipe' = None
                  /\ UNCHANGED cleanup

\* every remaining block of the chunker, up to its end or its first error
RECURSIVE DrainChunker(_, _, _)
DrainChunker(c, bs, blocks) ==
    LET r == StreamChunker_next(c, bs)
    IN  IF r.res = "Err" THEN [c |-> r.c, blocks |-> blocks, err |-> TRUE]
        ELSE IF r.block = None THEN [c |-> r.c, blocks |-> blocks, err |-> FALSE]
        ELSE DrainChunker(r.c, bs, Append(blocks, r.block.val))

\* read_and_put_blocks as one step: it succeeds only when the rest of the body
\* arrives, with the totals over the whole body, and may fail at any block
PipelineAtomic ==
    /\ put.pc = "pipeline"
    /\ LET d == DrainChunker(chunker, block_size, <<put.first_block>>)
           all == Concat(d.blocks)
       IN  /\ chunker' = d.c
           /\ \/ /\ ~d.err
                 /\ AfterPipeline(OkPipe(Len(all), md5(all), sha256sum(all),
                        async_blake2sum(encrypt_block(req.encryption, put.first_block))))
              \/ /\ d.err
                 /\ AfterPipeline(ErrPipe("BadRequest: body"))
              \/ AfterPipeline(ErrPipe("InternalError"))
    /\ UNCHANGED <<body, block_size, returned, tableVars, req, issued,
                   versionTable, blockRefTable, blockStore>>

\* lines 210-224: the final quota check, then the Complete insert sent
PutFinalQuota ==
    /\ put.pc = "final_quota"
    /\ LET q == check_quotas(put.total_size, put.existing, req.quotas, req.counters)
           etag == etag_from_md5(req.encryption, put.data_md5sum.val)
       IN  IF q # "Ok"
           THEN PutReturn(put, q) /\ UNCHANGED <<net, issued>>
           ELSE /\ put' = [put EXCEPT !.pc = "complete_insert", !.etag = Some(etag)]
                /\ SendInsert(PutKey, CompleteObject(put.version_uuid,
                       put.version_timestamp, put.total_size, put.first_block_hash.val))
                /\ UNCHANGED <<cleanup, pipe>>
    /\ UNCHANGED <<chunkerVars, objTable, next_uuid, req, versionTable,
                   blockRefTable, blockStore>>

\* lines 224-234: the Complete insert's outcome; on success the guard is
\* cancelled before the function returns
PutCompleteInsert ==
    /\ put.pc = "complete_insert"
    /\ \/ PutReturn([put EXCEPT !.guard = InterruptedCleanup_cancel(@)], "Ok")
       \/ PutReturn(put, "InternalError")
    /\ UNCHANGED <<chunkerVars, tableVars, req, issued, versionTable,
                   blockRefTable, blockStore>>

\* the request future is dropped at an await (the client went away)
PutCancel ==
    /\ put # None
    /\ put.pc # "done"
    /\ PutReturn(put, "Cancelled")
    /\ UNCHANGED <<chunkerVars, tableVars, req, issued, versionTable,
                   blockRefTable, blockStore>>

\* lines 595-605: the spawned task runs and sends the Aborted insert
CleanupRun ==
    /\ cleanup = "spawned"
    /\ cleanup' = "issued"
    /\ SendInsert(PutKey, AbortedObject(put.version_uuid, put.version_timestamp))
    /\ UNCHANGED <<chunkerVars, objTable, next_uuid, req, put,
                   versionTable, blockRefTable, blockStore, pipe>>

\* ------------------------------------------------------ read_and_put_blocks
\* the stages run inside one join: the receivers belong to the function and
\* stay open until it returns, so a send never fails, it waits for room; a
\* sender is dropped when its stage ends
CH1_CAPACITY == 2
CH2_CAPACITY == 1
CH3_CAPACITY == 1
PUT_BLOCKS_MAX_PARALLEL == 3

PipeRunning == put.pc = "pipeline" /\ pipe # None

PipeErr(err) == [ok |-> FALSE, err |-> err]

\* read_blocks: the send of the block in hand, then the next chunker.next()
ReadBlocksSend ==
    /\ PipeRunning
    /\ pipe.rd.st = "send"
    /\ Len(pipe.ch1) < CH1_CAPACITY
    /\ LET item == pipe.rd.item
           r == StreamChunker_next(chunker, block_size)
       IN  IF ~item.ok
           THEN /\ pipe' = [pipe EXCEPT !.ch1 = Append(@, item), !.tx1 = FALSE,
                                        !.rd = [st |-> "done", item |-> None]]
                /\ UNCHANGED chunker
           ELSE /\ chunker' = r.c
                /\ pipe' = [pipe EXCEPT
                       !.ch1 = Append(@, item),
                       !.tx1 = ~(r.res = "Ok" /\ r.block = None),
                       !.rd = IF r.res = "Err" THEN [st |-> "send", item |-> ErrItem]
                              ELSE IF r.block = None THEN [st |-> "done", item |-> None]
                              ELSE [st |-> "send", item |-> OkItem(r.block.val)]]
    /\ UNCHANGED <<body, block_size, returned, tableVars, req, put, cleanup, issued,
                   versionTable, blockRefTable, blockStore>>

\* hash_stream: block_rx.recv() returns an item, or None once the reader is gone
HashStreamRecv ==
    /\ PipeRunning
    /\ pipe.hs.st = "recv"
    /\ IF pipe.ch1 # <<>>
       THEN pipe' = [pipe EXCEPT !.ch1 = Tail(@), !.hs.st = "send",
                                 !.hs.item = Head(pipe.ch1)]
       ELSE /\ ~pipe.tx1
            /\ pipe' = [pipe EXCEPT !.hs.st = "done", !.tx2 = FALSE]
    /\ UNCHANGED <<chunkerVars, tableVars, req, put, cleanup, issued,
                   versionTable, blockRefTable, blockStore>>

\* hash_stream: the item is forwarded; a block then goes into both hashers, an
\* error ends the stage
HashStreamSend ==
    /\ PipeRunning
    /\ pipe.hs.st = "send"
    /\ Len(pipe.ch2) < CH2_CAPACITY
    /\ LET item == pipe.hs.item
       IN  pipe' = IF item.ok
                   THEN [pipe EXCEPT !.ch2 = Append(@, item),
                                     !.hs = [st |-> "recv", item |-> None,
                                             hashed |-> @.hashed \o item.bytes]]
                   ELSE [pipe EXCEPT !.ch2 = Append(@, item), !.tx2 = FALSE,
                                     !.hs.st = "done", !.hs.item = None]
    /\ UNCHANGED <<chunkerVars, tableVars, req, put, cleanup, issued,
                   versionTable, blockRefTable, blockStore>>

\* encrypt_hash_blocks leaves its loop: the sender is dropped and
\* first_block_hash.unwrap() panics when no block was hashed; the panic
\* unwinds save_stream
EncryptEnd(p) ==
    IF p.en.first_block_hash = None
    THEN PutReturn(put, "Panic")
    ELSE /\ pipe' = [p EXCEPT !.en.st = "done", !.en.item = None, !.tx3 = FALSE]
         /\ UNCHANGED <<put, cleanup>>

\* encrypt_hash_blocks: an item is received; a block is encrypted when the
\* upload is encrypted, which may fail, and hashed
EncryptRecv ==
    /\ PipeRunning
    /\ pipe.en.st = "recv"
    /\ IF pipe.ch2 # <<>>
       THEN LET next == Head(pipe.ch2)
                block == encrypt_block(req.encryption, next.bytes)
                hash == async_blake2sum(block)
            IN  /\ \/ /\ next.ok
                      /\ pipe' = [pipe EXCEPT
                             !.ch2 = Tail(@),
                             !.en = [st |-> "send",
                                     item |-> [ok |-> TRUE, block |-> block,
                                               unencrypted_len |-> Len(next.bytes),
                                               hash |-> hash],
                                     first_block_hash |->
                                         IF @.first_block_hash = None
                                         THEN Some(hash) ELSE @.first_block_hash]]
                   \/ /\ next.ok /\ is_encrypted(req.encryption)
                      /\ pipe' = [pipe EXCEPT !.ch2 = Tail(@), !.en.st = "send",
                                              !.en.item = PipeErr("InternalError")]
                   \/ /\ ~next.ok
                      /\ pipe' = [pipe EXCEPT !.ch2 = Tail(@), !.en.st = "send",
                                              !.en.item = PipeErr("BadRequest: body")]
                /\ UNCHANGED <<put, cleanup>>
       ELSE /\ ~pipe.tx2
            /\ EncryptEnd(pipe)
    /\ UNCHANGED <<chunkerVars, tableVars, req, issued, versionTable,
                   blockRefTable, blockStore>>

\* encrypt_hash_blocks: the item is forwarded; an error ends the stage
EncryptSend ==
    /\ PipeRunning
    /\ pipe.en.st = "send"
    /\ Len(pipe.ch3) < CH3_CAPACITY
    /\ LET sent == [pipe EXCEPT !.ch3 = Append(@, pipe.en.item)]
       IN  IF pipe.en.item.ok
           THEN /\ pipe' = [sent EXCEPT !.en.st = "recv", !.en.item = None]
                /\ UNCHANGED <<put, cleanup>>
           ELSE EncryptEnd(sent)
    /\ UNCHANGED <<chunkerVars, tableVars, req, issued, versionTable,
                   blockRefTable, blockStore>>

\* a write that records every block at offset 0
WriteFuture_offset_zero(offset, hash, block, size) ==
    [offset |-> 0, hash |-> hash, block |-> block, size |-> size,
     todo |-> {"rpc_put_block", "version_insert", "block_ref_insert"}, st |-> "run"]

\* put_block_and_meta: the three requests of one write, not yet made
WriteFuture(offset, hash, block, size) ==
    [offset |-> offset, hash |-> hash, block |-> block, size |-> size,
     todo |-> {"rpc_put_block", "version_insert", "block_ref_insert"}, st |-> "run"]

\* a merge where the last writer wins
BlockRef_merge_overwrite(self, other) == [self EXCEPT !.deleted = other.deleted]

\* BlockRef merge
BlockRef_merge(self, other) == IF other.deleted THEN [self EXCEPT !.deleted = TRUE] ELSE self

MergeBlockRefRow(table, ref) ==
    IF \E x \in table : x.block = ref.block /\ x.version = ref.version
    THEN {IF x.block = ref.block /\ x.version = ref.version
          THEN BlockRef_merge(x, ref) ELSE x : x \in table}
    ELSE table \cup {ref}

\* a recv_next that never waits for a write to end
recv_next_polls_channel_always(currently_running) == TRUE

\* lines 451-458: recv_next polls the channel unless currently_running, the
\* length of write_futs, has reached PUT_BLOCKS_MAX_PARALLEL
recv_next_polls_channel(currently_running) ==
    ~(currently_running >= PUT_BLOCKS_MAX_PARALLEL)

\* put_blocks takes the next item of its channel while fewer than
\* PUT_BLOCKS_MAX_PARALLEL writes are in its queue
PutBlocksRecv ==
    /\ PipeRunning
    /\ pipe.wr.st = "loop"
    /\ recv_next_polls_channel(Len(pipe.wr.futs))
    /\ IF pipe.ch3 # <<>>
       THEN LET next == Head(pipe.ch3)
            IN  pipe' = IF next.ok
                        THEN [pipe EXCEPT
                                 !.ch3 = Tail(@),
                                 !.wr.futs = Append(@, WriteFuture(pipe.wr.written_bytes,
                                                 next.hash, next.block, next.unencrypted_len)),
                                 !.wr.written_bytes = @ + next.unencrypted_len]
                        ELSE [pipe EXCEPT !.ch3 = Tail(@), !.wr.st = "done",
                                          !.wr.res = next.err]
       ELSE /\ ~pipe.tx3
            /\ pipe' = IF pipe.wr.futs = <<>>
                       THEN [pipe EXCEPT !.wr.st = "done", !.wr.res = "Ok"]
                       ELSE [pipe EXCEPT !.wr.st = "drain"]
    /\ UNCHANGED <<chunkerVars, tableVars, req, put, cleanup, issued,
                   versionTable, blockRefTable, blockStore>>

\* put_blocks takes the result of the oldest write of its queue: an error
\* ends the stage, the writes still in the queue dropped with it
PutBlocksNextWrite ==
    /\ PipeRunning
    /\ pipe.wr.st \in {"loop", "drain"}
    /\ pipe.wr.futs # <<>>
    /\ Head(pipe.wr.futs).st # "run"
    /\ pipe' = IF Head(pipe.wr.futs).st = "err"
               THEN [pipe EXCEPT !.wr.st = "done", !.wr.res = "InternalError: write"]
               ELSE IF pipe.wr.st = "drain" /\ Len(pipe.wr.futs) = 1
                    THEN [pipe EXCEPT !.wr.futs = <<>>, !.wr.st = "done", !.wr.res = "Ok"]
                    ELSE [pipe EXCEPT !.wr.futs = Tail(@)]
    /\ UNCHANGED <<chunkerVars, tableVars, req, put, cleanup, issued,
                   versionTable, blockRefTable, blockStore>>

\* one request of a write in the queue takes effect: the block stored, or
\* the Version row with this one block merged, or the BlockRef merged
WriteStep ==
    /\ PipeRunning
    /\ pipe.wr.st \in {"loop", "drain"}
    /\ \E i \in 1..Len(pipe.wr.futs) :
         LET f == pipe.wr.futs[i]
         IN  /\ f.st = "run"
             /\ \E op \in f.todo :
                  /\ pipe' = [pipe EXCEPT !.wr.futs[i].todo = @ \ {op},
                                          !.wr.futs[i].st =
                                              IF f.todo = {op} THEN "ok" ELSE "run"]
                  /\ blockStore' =
                       IF op = "rpc_put_block"
                       THEN blockStore \cup {[hash |-> f.hash, data |-> f.block]}
                       ELSE blockStore
                  /\ versionTable' =
                       IF op = "version_insert"
                       THEN MergeVersionRow(versionTable,
                                [Version_new(put.version_uuid) EXCEPT !.blocks =
                                    {[part_number |-> 1, offset |-> f.offset,
                                      hash |-> f.hash, size |-> f.size]}])
                       ELSE versionTable
                  /\ blockRefTable' =
                       IF op = "block_ref_insert"
                       THEN MergeBlockRefRow(blockRefTable,
                                [block |-> f.hash, version |-> put.version_uuid,
                                 deleted |-> FALSE])
                       ELSE blockRefTable
    /\ UNCHANGED <<chunkerVars, tableVars, req, put, cleanup, issued>>

\* one request of a write in the queue fails: try_join! ends the write
WriteFail ==
    /\ PipeRunning
    /\ pipe.wr.st \in {"loop", "drain"}
    /\ \E i \in 1..Len(pipe.wr.futs) :
         /\ pipe.wr.futs[i].st = "run"
         /\ pipe' = [pipe EXCEPT !.wr.futs[i].st = "err"]
    /\ UNCHANGED <<chunkerVars, tableVars, req, put, cleanup, issued,
                   versionTable, blockRefTable, blockStore>>

\* lines 490-501 and 200-208: the join ends when the four stages have, and
\* read_and_put_blocks returns to save_stream
PipelineJoin ==
    /\ PipeRunning
    /\ pipe.rd.st = "done" /\ pipe.hs.st = "done"
    /\ pipe.en.st = "done" /\ pipe.wr.st = "done"
    /\ AfterPipeline(
           IF pipe.wr.res = "Ok"
           THEN OkPipe(pipe.wr.written_bytes, md5(pipe.hs.hashed),
                       sha256sum(pipe.hs.hashed), pipe.en.first_block_hash.val)
           ELSE ErrPipe(pipe.wr.res))
    /\ UNCHANGED <<chunkerVars, tableVars, req, issued, versionTable,
                   blockRefTable, blockStore>>

\* the requests save_stream is given
QuotaEnvs ==
    {[quotas |-> [max_size |-> None, max_objects |-> None],
      counters |-> [ok |-> TRUE, objects |-> 0, bytes |-> 0]],
     [quotas |-> [max_size |-> None, max_objects |-> Some(0)],
      counters |-> [ok |-> TRUE, objects |-> 0, bytes |-> 0]],
     [quotas |-> [max_size |-> None, max_objects |-> Some(0)],
      counters |-> [ok |-> FALSE, objects |-> 0, bytes |-> 0]]}

Sha256Right(b) == Some(sha256sum(BodyBytes(b)))
Sha256Wrong == Some(sha256sum(<<0>>))
Md5Right(b) ==
    Some(<<QuoteChar>> \o BASE64_STANDARD_encode(md5(BodyBytes(b))) \o <<QuoteChar>>)

Requests(md5s, sha256s, encryptions, envs) ==
    {[content_md5 |-> m, content_sha256 |-> s, encryption |-> e,
      quotas |-> q.quotas, counters |-> q.counters] :
        m \in md5s, s \in sha256s, e \in encryptions, q \in envs}

LifecycleRequests(b) ==
    Requests({None}, {None, Sha256Right(b), Sha256Wrong}, {"Plain"}, QuotaEnvs)

NoQuota == {q \in QuotaEnvs : q.quotas.max_objects = None}
PipeRequests(b) == Requests({None, Md5Right(b)}, {None}, {"Plain", "SseC"}, NoQuota)

\* bodies around the inline threshold, one of them cut by a stream error
LifecycleBodies ==
    {BodyOf(<<INLINE_THRESHOLD - 1>>, 1), BodyOf(<<INLINE_THRESHOLD + 1>>, 1),
     BodyOf(<<INLINE_THRESHOLD + 1, -1>>, 1)}

\* bodies of 0, INLINE_THRESHOLD - 1, INLINE_THRESHOLD and INLINE_THRESHOLD + 1
\* bytes, one cut by a stream error, and one of more blocks than the writer
\* keeps in flight
PipeBodies ==
    {BodyOf(<<>>, 1), BodyOf(<<INLINE_THRESHOLD - 1>>, 1),
     BodyOf(<<1, INLINE_THRESHOLD - 1>>, 1), BodyOf(<<INLINE_THRESHOLD + 1>>, 1),
     BodyOf(<<INLINE_THRESHOLD, -1>>, 1),
     BodyOf(<<INLINE_THRESHOLD + 1, INLINE_THRESHOLD + 1, INLINE_THRESHOLD>>, 1)}

PipeBlockSizes == {INLINE_THRESHOLD - 1, INLINE_THRESHOLD, INLINE_THRESHOLD + 1}

InitPut(bodies, block_sizes, reqs, rows) ==
    /\ body \in bodies
    /\ block_size \in block_sizes
    /\ chunker = StreamChunker_new(body)
    /\ returned = <<>>
    /\ req \in reqs[body]
    /\ put = PutStart
    /\ cleanup = "none"
    /\ issued = {}
    /\ versionTable = {}
    /\ blockRefTable = {}
    /\ blockStore = {}
    /\ pipe = None
    /\ \E row \in rows :
           objTable = [r \in Replicas |-> [k \in Keys |-> IF k = PutKey THEN row ELSE NoRow]]
    /\ net = {}
    /\ next_uuid = 1

\* ----------------------------------------------------------- BlockRefTable
Hashes == {"h1", "h2"}
VersionIds == {1, 2}

BlockRef(block, version, deleted) ==
    [block |-> block, version |-> version, deleted |-> deleted]

BlockRefs == {BlockRef(h, v, d) : h \in Hashes, v \in VersionIds, d \in BOOLEAN}

\* partition_key and sort_key: the row an entry belongs to
SameRef(a, b) == a.block = b.block /\ a.version = b.version

\* the stored row of an entry's key
StoredRef(e) ==
    IF \E x \in blockRefTable : SameRef(x, e)
    THEN Some(CHOOSE x \in blockRefTable : SameRef(x, e))
    ELSE None

\* a hook that never gives a reference back
updated_incref_only(old, new) ==
    [block |-> IF old # None THEN old.val.block ELSE new.val.block,
     incref |-> (IF new = None THEN FALSE ELSE ~new.val.deleted)
                    /\ ~(IF old = None THEN FALSE ELSE ~old.val.deleted),
     decref |-> FALSE]

\* a hook that counts a reference at every update that leaves the row live
updated_every_live(old, new) ==
    [block |-> IF old # None THEN old.val.block ELSE new.val.block,
     incref |-> IF new = None THEN FALSE ELSE ~new.val.deleted,
     decref |-> IF new = None THEN old # None ELSE new.val.deleted]

\* BlockRefTable::updated: the calls it makes to the block manager
updated(old, new) ==
    LET block == IF old # None THEN old.val.block ELSE new.val.block
        was_before == IF old = None THEN FALSE ELSE ~old.val.deleted
        is_after == IF new = None THEN FALSE ELSE ~new.val.deleted
    IN  [block |-> block,
         incref |-> is_after /\ ~was_before,
         decref |-> was_before /\ ~is_after]

RefIdle == refs = None

InitBlockRef ==
    refs = [log |-> <<>>, n |-> 0, last |-> None, failures |-> 0,
            increfs |-> [h \in Hashes |-> 0], decrefs |-> [h \in Hashes |-> 0],
            rc |-> [h \in Hashes |-> 0]]

\* the hook ran with (old, new): its calls are counted, and take effect in
\* the block manager unless they fail, which is only logged
AfterUpdated(kind, ins, old, new, fails) ==
    LET calls == updated(old, new)
        called == calls.incref \/ calls.decref
        failed == fails /\ called
    IN  refs' = [refs EXCEPT
            !.n = @ + 1,
            !.log = IF kind = "insert" THEN Append(@, ins) ELSE @,
            !.last = Some([kind |-> kind, old |-> old, new |-> new,
                           calls |-> calls, failed |-> failed]),
            !.failures = @ + (IF failed THEN 1 ELSE 0),
            !.increfs[calls.block] = @ + (IF calls.incref THEN 1 ELSE 0),
            !.decrefs[calls.block] = @ + (IF calls.decref THEN 1 ELSE 0),
            !.rc[calls.block] = @ + (IF failed THEN 0
                                     ELSE IF calls.incref THEN 1
                                     ELSE IF calls.decref THEN -1 ELSE 0)]

\* an insert, new or replayed, reaches the node: the entry is merged into the
\* stored row and the hook runs with the row before and after
BlockRefInsert ==
    /\ refs.n < MaxInserts
    /\ \E e \in BlockRefs, fails \in BOOLEAN :
         LET old == StoredRef(e)
             table == MergeBlockRefRow(blockRefTable, e)
             new == CHOOSE x \in table : SameRef(x, e)
         IN  /\ blockRefTable' = table
             /\ AfterUpdated("insert", e, old, Some(new), fails)
    /\ UNCHANGED <<req, put, cleanup, issued, versionTable, blockStore, pipe>>

\* the hook called with any pair of values of one row, absent included
UpdatedCall ==
    /\ refs.n < MaxInserts
    /\ \E h \in Hashes, v \in VersionIds, fails \in BOOLEAN :
         \E old, new \in {None} \cup {Some(BlockRef(h, v, d)) : d \in BOOLEAN} :
             /\ ~(old = None /\ new = None)
             /\ AfterUpdated("call", BlockRef(h, v, FALSE), old, new, fails)
    /\ UNCHANGED <<req, put, cleanup, issued, versionTable, blockRefTable,
                   blockStore, pipe>>

\* ----------------------------------------------------------- specifications
NextChunker == ChunkerCall /\ UNCHANGED <<quotaVars, checksumVars, tableVars, delVars, putVars, refVars>>
InitSpecChunker == InitChunker /\ QuotaIdle /\ ChecksumIdle /\ TableIdle /\ DelIdle /\ PutIdle /\ RefIdle
SpecChunker == InitSpecChunker /\ [][NextChunker]_vars

NextQuota ==
    QuotaCall /\ UNCHANGED <<chunkerVars, tableVars, delVars, putVars, refVars, checksumVars>>
InitSpecQuota == InitQuota /\ ChecksumIdle /\ ChunkerIdle /\ TableIdle /\ DelIdle /\ PutIdle /\ RefIdle
SpecQuota == InitSpecQuota /\ [][NextQuota]_vars

deleteOnly == <<req, put, cleanup, versionTable, blockRefTable, blockStore, pipe, refs>>
NextDelete ==
    \/ DeleteGet /\ UNCHANGED <<chunkerVars, quotaVars, checksumVars, deleteOnly>>
    \/ DeleteInsert /\ UNCHANGED <<chunkerVars, quotaVars, checksumVars, deleteOnly>>
    \/ Deliver /\ UNCHANGED <<chunkerVars, quotaVars, checksumVars, delVars, putVars, refVars>>
InitSpecDelete == InitDelete /\ ChunkerIdle /\ QuotaIdle /\ ChecksumIdle /\ PutIdleNoIssued /\ RefIdle
SpecDelete == InitSpecDelete /\ [][NextDelete]_vars

NextDeleteOne ==
    \/ DeleteGet /\ UNCHANGED <<chunkerVars, quotaVars, checksumVars, deleteOnly>>
    \/ DeleteInsert /\ UNCHANGED <<chunkerVars, quotaVars, checksumVars, deleteOnly>>
    \/ Deliver /\ UNCHANGED <<chunkerVars, quotaVars, checksumVars, delVars, putVars, refVars>>
InitSpecDeleteOne == InitDeleteOne /\ ChunkerIdle /\ QuotaIdle /\ ChecksumIdle /\ PutIdleNoIssued /\ RefIdle
SpecDeleteOne == InitSpecDeleteOne /\ [][NextDeleteOne]_vars

putOnly == <<quotaVars, checksumVars, delVars, refVars>>
Next ==
    \/ PutFirstBlock /\ UNCHANGED putOnly
    \/ PutInlineQuota /\ UNCHANGED putOnly
    \/ PutInlineInsert /\ UNCHANGED putOnly
    \/ PutUploadingInsert /\ UNCHANGED putOnly
    \/ PutVersionInsert /\ UNCHANGED putOnly
    \/ PipelineAtomic /\ UNCHANGED putOnly
    \/ PutFinalQuota /\ UNCHANGED putOnly
    \/ PutCompleteInsert /\ UNCHANGED putOnly
    \/ PutCancel /\ UNCHANGED putOnly
    \/ CleanupRun /\ UNCHANGED putOnly
    \/ Deliver /\ UNCHANGED <<chunkerVars, quotaVars, checksumVars, delVars, putVars, refVars>>
    \/ DeleteGet /\ UNCHANGED <<chunkerVars, quotaVars, checksumVars, deleteOnly>>
    \/ DeleteInsert /\ UNCHANGED <<chunkerVars, quotaVars, checksumVars, deleteOnly>>
InitSpec ==
    /\ InitPut(LifecycleBodies, {INLINE_THRESHOLD + 1},
               [b \in LifecycleBodies |-> LifecycleRequests(b)], StoredRows)
    /\ QuotaIdle /\ ChecksumIdle
    /\ RefIdle
    \* a handle_delete of the same key runs beside the plainest requests
    /\ IF req.content_sha256 = None /\ req.quotas.max_objects = None
       THEN del \in {NoDelete, DelRequest("single", <<PutKey>>, FALSE)}
       ELSE DelIdle
Spec == InitSpec /\ [][Next]_vars

\* the runtime keeps polling a spawned task: the cleanup task gets to run
FairSpec == Spec /\ WF_vars(CleanupRun /\ UNCHANGED putOnly)


NextPipe ==
    \/ PutFirstBlock /\ UNCHANGED putOnly
    \/ PutInlineQuota /\ UNCHANGED putOnly
    \/ PutInlineInsert /\ UNCHANGED putOnly
    \/ PutUploadingInsert /\ UNCHANGED putOnly
    \/ PutVersionInsert /\ UNCHANGED putOnly
    \/ ReadBlocksSend /\ UNCHANGED putOnly
    \/ HashStreamRecv /\ UNCHANGED putOnly
    \/ HashStreamSend /\ UNCHANGED putOnly
    \/ EncryptRecv /\ UNCHANGED putOnly
    \/ EncryptSend /\ UNCHANGED putOnly
    \/ PutBlocksRecv /\ UNCHANGED putOnly
    \/ PutBlocksNextWrite /\ UNCHANGED putOnly
    \/ WriteStep /\ UNCHANGED putOnly
    \/ WriteFail /\ UNCHANGED putOnly
    \/ PipelineJoin /\ UNCHANGED putOnly
    \/ PutFinalQuota /\ UNCHANGED putOnly
    \/ PutCompleteInsert /\ UNCHANGED putOnly
    \/ PutCancel /\ UNCHANGED putOnly
    \/ CleanupRun /\ UNCHANGED putOnly
InitSpecPipe ==
    /\ InitPut(PipeBodies, PipeBlockSizes, [b \in PipeBodies |-> PipeRequests(b)], {NoRow})
    /\ QuotaIdle /\ ChecksumIdle
    /\ DelIdle
    /\ RefIdle
SpecPipe == InitSpecPipe /\ [][NextPipe]_vars

\* the steps of the four stages and of the join that waits for them: the
\* executor polls a stage that can go on, and a write that was started ends,
\* with a result or an error
PipeStages ==
    \/ ReadBlocksSend \/ HashStreamRecv \/ HashStreamSend
    \/ EncryptRecv \/ EncryptSend
    \/ PutBlocksRecv \/ PutBlocksNextWrite
    \/ WriteStep \/ WriteFail
    \/ PipelineJoin
FairPipe == SpecPipe /\ WF_vars(PipeStages /\ UNCHANGED putOnly)

\* save_stream with its stages, its digest and quota checks and the replicas
\* of the object table: uploads of two blocks, with or without a SHA-256
\* header and a quota
StreamBlockSizes == {INLINE_THRESHOLD}
NextStream ==
    \/ NextPipe
    \/ Deliver /\ UNCHANGED <<chunkerVars, putVars, putOnly>>
InitSpecStream ==
    /\ InitPut(LifecycleBodies, StreamBlockSizes,
               [b \in LifecycleBodies |-> LifecycleRequests(b)], {NoRow})
    /\ QuotaIdle /\ ChecksumIdle
    /\ DelIdle
    /\ RefIdle
SpecStream == InitSpecStream /\ [][NextStream]_vars


refOnly == <<chunkerVars, quotaVars, checksumVars, tableVars, delVars>>
NextBlockRef == BlockRefInsert /\ UNCHANGED refOnly
InitSpecBlockRef ==
    InitBlockRef /\ ChunkerIdle /\ QuotaIdle /\ ChecksumIdle /\ TableIdle /\ DelIdle /\ PutIdle
SpecBlockRef == InitSpecBlockRef /\ [][NextBlockRef]_vars

NextUpdated ==
    \/ BlockRefInsert /\ UNCHANGED refOnly
    \/ UpdatedCall /\ UNCHANGED refOnly
InitSpecUpdated ==
    InitBlockRef /\ ChunkerIdle /\ QuotaIdle /\ ChecksumIdle /\ TableIdle /\ DelIdle /\ PutIdle
SpecUpdated == InitSpecUpdated /\ [][NextUpdated]_vars


NextChecksum ==
    ChecksumCall
        /\ UNCHANGED <<chunkerVars, quotaVars, tableVars, delVars, putVars, refVars>>
InitSpecChecksum ==
    InitChecksum /\ ChunkerIdle /\ QuotaIdle /\ TableIdle /\ DelIdle /\ PutIdle /\ RefIdle
SpecChecksum == InitSpecChecksum /\ [][NextChecksum]_vars

\* ------------------------------------------------------------------ claims
\* the versions of uuid `u` in replica r's row of the PUT's key
VersionsOf(r, u) == {v \in objTable[r][PutKey].versions : v.uuid = u}

\* an insert carrying a version of uuid `u` is still on its way
InsertPending(u) == \E m \in net : \E v \in m.obj.versions : v.uuid = u

\* C1: once save_stream has returned Ok with version uuid U and every insert
\* carrying U has been merged, each replica's row of the key holds exactly one
\* version of uuid U, and it is Complete.
C1_CompletedPutOneCompleteVersion ==
    (put.result = "Ok" /\ ~InsertPending(put.version_uuid)) =>
        \A r \in Replicas :
            /\ Cardinality(VersionsOf(r, put.version_uuid)) = 1
            /\ \A v \in VersionsOf(r, put.version_uuid) : v.state.st = "Complete"

\* C1's case: a streamed PUT returned Ok, its Uploading and Complete inserts
\* are merged everywhere, beside other versions of the key
C1_Witness ==
    /\ put.result = "Ok" /\ put.guard = "cancelled"
    /\ ~InsertPending(put.version_uuid)
    /\ \A r \in Replicas : Cardinality(objTable[r][PutKey].versions) >= 2

\* the Aborted tombstone of the PUT has been sent and replica r has merged it
TombstoneMerged(r) ==
    /\ cleanup = "issued"
    /\ ~\E m \in net :
           m.to = r /\ m.obj = AbortedObject(put.version_uuid, put.version_timestamp)

\* C2: once the Aborted tombstone of an aborted streamed PUT has merged at a
\* replica, that replica does not show the PUT's version as Complete.
C2_AbortedNeverComplete ==
    \A r \in Replicas :
        TombstoneMerged(r) =>
            \A v \in VersionsOf(r, put.version_uuid) : v.state.st # "Complete"

\* save_stream ended on the streamed path, after the Uploading insert was
\* sent and without the Complete insert having succeeded
StreamedEndedEarly ==
    /\ put.pc = "done" /\ put.result # "Ok"
    /\ [key |-> PutKey, obj |-> UploadingObject(put.version_uuid, put.version_timestamp)]
           \in issued

AbortedIssued ==
    [key |-> PutKey, obj |-> AbortedObject(put.version_uuid, put.version_timestamp)]
        \in issued

\* C3: when save_stream ends on the streamed path without its Complete insert
\* having succeeded, the cleanup task has been spawned, and whatever became
\* of the caller it goes on to send the insert of the Aborted version with
\* the same uuid and timestamp; the guard is cancelled only by a save_stream
\* whose Complete insert succeeded.
C3_CleanupSpawnedAndIssued ==
    /\ [](StreamedEndedEarly => cleanup \in {"spawned", "issued"})
    /\ [](put.guard = "cancelled" =>
            /\ put.pc = "done" /\ put.result = "Ok"
            /\ \E obj \in {x.obj : x \in issued} :
                   \E v \in obj.versions :
                       /\ v.uuid = put.version_uuid
                       /\ v.timestamp = put.version_timestamp
                       /\ v.state.st = "Complete")
    /\ (StreamedEndedEarly ~> AbortedIssued)

\* C3's case: the request was dropped while the Complete insert was awaited,
\* and the tombstone has been sent
C3_Witness ==
    /\ put.result = "Cancelled"
    /\ StreamedEndedEarly
    /\ \E x \in issued : \E v \in x.obj.versions :
           v.uuid = put.version_uuid /\ v.state.st = "Complete"
    /\ AbortedIssued

\* the block entries of the PUT's Version row
VersionBlocks ==
    UNION {x.blocks : x \in {y \in versionTable : y.uuid = put.version_uuid}}

BlockKeyBefore(b, c) ==
    \/ b.part_number < c.part_number
    \/ b.part_number = c.part_number /\ b.offset < c.offset

\* block entries in (part_number, offset) order
RECURSIVE BlocksInOrder(_)
BlocksInOrder(bs) ==
    IF bs = {} THEN <<>>
    ELSE LET first == CHOOSE b \in bs : \A c \in bs \ {b} : BlockKeyBefore(b, c)
         IN  <<first>> \o BlocksInOrder(bs \ {first})

\* the plaintext of the stored block of a hash
StoredPlaintext(hash) ==
    decrypt(req.encryption, (CHOOSE b \in blockStore : b.hash = hash).data)

\* the blocks the chunker makes of the whole body
ChunkerBlocks == DrainChunker(StreamChunker_new(body), block_size, <<>>).blocks

StreamedOk == put.result = "Ok" /\ put.guard = "cancelled"

\* C4: after a streamed PUT returned Ok, the writer's total is the number of
\* bytes of the body, the Version row has one block entry per chunker block,
\* keyed by part 1 and the sum of the lengths of the blocks before it, and the
\* stored blocks read in (part, offset) order are the body.
C4_BlocksReproduceBody ==
    StreamedOk =>
        /\ put.total_size = Len(BodyBytes(body))
        /\ Cardinality(VersionBlocks) = Len(ChunkerBlocks)
        /\ \A b, c \in VersionBlocks :
               (b.part_number = c.part_number /\ b.offset = c.offset) => b = c
        /\ LET ord == BlocksInOrder(VersionBlocks)
           IN  /\ \A i \in 1..Len(ord) :
                    /\ ord[i].part_number = 1
                    /\ ord[i].offset = SeqSum([j \in 1..i - 1 |-> Len(ChunkerBlocks[j])])
                    /\ ord[i].size = Len(ChunkerBlocks[i])
                    /\ \E b \in blockStore : b.hash = ord[i].hash
               /\ Concat([i \in 1..Len(ord) |-> StoredPlaintext(ord[i].hash)])
                      = BodyBytes(body)

\* C4's case: an encrypted upload of more blocks than the writer keeps in
\* flight, arriving in chunks that are not the blocks, returned Ok
C4_Witness ==
    /\ StreamedOk
    /\ is_encrypted(req.encryption)
    /\ Cardinality(VersionBlocks) > PUT_BLOCKS_MAX_PARALLEL
    /\ \E i \in 1..Len(body) : Len(body[i].bytes) # block_size

\* what the staged pipeline hands to save_stream on success is what
\* PipelineAtomic computes in one step
PipelineAtomicAgrees ==
    put.pc = "final_quota" =>
        /\ put.total_size = Len(BodyBytes(body))
        /\ put.data_md5sum = Some(md5(BodyBytes(body)))
        /\ put.first_block_hash =
               Some(async_blake2sum(encrypt_block(req.encryption, put.first_block)))

\* the version of the PUT among the inserts sent
IssuedVersions ==
    {v \in UNION {x.obj.versions : x \in issued} : v.uuid = put.version_uuid}

InlineVersions ==
    {v \in IssuedVersions : v.state.st = "Complete" /\ v.state.data.kind = "Inline"}

\* the inline branch was taken: one Object insert, of a Complete(Inline)
\* version, and nothing written to the Version and BlockRef tables or the
\* block store
InlineBranch ==
    /\ Cardinality({x \in issued : \E v \in x.obj.versions : v.uuid = put.version_uuid}) = 1
    /\ IssuedVersions = InlineVersions
    /\ versionTable = {} /\ blockRefTable = {} /\ blockStore = {}

StreamedBranch ==
    /\ \E v \in IssuedVersions : v.state.st = "Uploading"
    /\ \E v \in IssuedVersions : v.state.st = "Complete" /\ v.state.data.kind = "FirstBlock"
    /\ InlineVersions = {}

\* the plaintext a reader of the PUT's version gets
StoredBytes ==
    IF InlineVersions # {}
    THEN decrypt(req.encryption, (CHOOSE v \in InlineVersions : TRUE).state.data.bytes)
    ELSE LET ord == BlocksInOrder(VersionBlocks)
         IN  Concat([i \in 1..Len(ord) |-> StoredPlaintext(ord[i].hash)])

ThresholdUpload ==
    /\ put.result = "Ok"
    /\ ErrorFree(body)
    /\ Len(BodyBytes(body)) \in {0, INLINE_THRESHOLD - 1, INLINE_THRESHOLD, INLINE_THRESHOLD + 1}

ThresholdUploadStored ==
    /\ StoredBytes = BodyBytes(body)
    /\ Len(BodyBytes(body)) = INLINE_THRESHOLD - 1 => InlineBranch
    /\ Len(BodyBytes(body)) \in {INLINE_THRESHOLD, INLINE_THRESHOLD + 1} => StreamedBranch
    /\ Len(BodyBytes(body)) = 0 =>
          /\ InlineBranch
          /\ \A v \in InlineVersions : v.state.data.size = 0

\* C6: an upload of INLINE_THRESHOLD - 1, INLINE_THRESHOLD or
\* INLINE_THRESHOLD + 1 bytes that returned Ok stored the bytes of the body,
\* the first by the inline branch and the other two by the streamed branch;
\* an empty upload stored a single Inline version of length 0.
C6_ThresholdUploads == ThresholdUpload => ThresholdUploadStored

\* the same with blocks of at least INLINE_THRESHOLD bytes
ThresholdUploadsWithLargeBlocks ==
    (ThresholdUpload /\ block_size >= INLINE_THRESHOLD) => ThresholdUploadStored

\* the newest version of a non-empty set, in (timestamp, uuid) order
NewestVersion(vs) == CHOOSE v \in vs : \A w \in vs \ {v} : VersionBefore(w, v)

ExpectedDeletedVersion(object) ==
    LET vs == object.versions
        kept == {v \in vs : v.state.st # "Aborted"}
    IN  IF kept # {} THEN NewestVersion(kept).uuid
        ELSE IF vs # {} THEN NewestVersion(vs).uuid
        ELSE ZeroUuid

\* the read of handle_delete_internal found an object
DeleteFound == del.del_uuid # ZeroUuid

\* C11: a delete of an existing object reports the uuid of its newest version
\* that is not Aborted, of its newest version when all are Aborted, the zero
\* uuid when it has no version, and in each case sends the insert of an
\* Object holding one new version, a Complete(DeleteMarker).
C11_DeletedVersionAndMarker ==
    DeleteFound =>
        /\ del.deleted_version = ExpectedDeletedVersion(del.object.val)
        /\ \E x \in issued :
               /\ x.key = del.keys[del.i]
               /\ x.obj.versions =
                      {ObjectVersion(del.del_uuid, del.del_timestamp, Complete(DeleteMarker))}
        /\ \A v \in del.object.val.versions : v.uuid # del.del_uuid
        /\ del.pc = "done" /\ del.response = "204 NoContent" =>
              del.results[1].result.val = <<del.deleted_version, del.del_uuid>>

\* C11's case: the delete read a Complete version under a newer Aborted one
\* and reported the Complete one
C11_Witness ==
    /\ DeleteFound /\ del.pc = "done"
    /\ del.results[1].result.ok
    /\ \E v \in del.object.val.versions :
           /\ v.state.st = "Aborted"
           /\ v = NewestVersion(del.object.val.versions)
    /\ \E v \in del.object.val.versions :
           v.state.st = "Complete" /\ v.uuid = del.deleted_version

\* the inserts merged so far into the row of entry e
InsertsOf(e) == {refs.log[i] : i \in {j \in 1..Len(refs.log) : SameRef(refs.log[j], e)}}

\* C12: BlockRef merge ors `deleted` and keeps the rest of self; over the
\* entries of one (hash, version) it is commutative, associative and
\* idempotent, so a row is deleted exactly when one of the inserts merged into
\* it was, in whatever order they came, and never becomes live again.
C12_BlockRefMergeIsOr ==
    /\ \A row \in blockRefTable :
          /\ row.deleted = (\E e \in InsertsOf(row) : e.deleted)
          /\ \A e \in InsertsOf(row) :
                /\ BlockRef_merge(row, e) = row
                /\ BlockRef_merge(e, row) = row
          /\ \A a, b, c \in InsertsOf(row) \cup {row} :
                /\ BlockRef_merge(a, b).deleted = (a.deleted \/ b.deleted)
                /\ BlockRef_merge(a, b).block = a.block
                /\ BlockRef_merge(a, b).version = a.version
                /\ BlockRef_merge(a, b) = BlockRef_merge(b, a)
                /\ BlockRef_merge(BlockRef_merge(a, b), c)
                      = BlockRef_merge(a, BlockRef_merge(b, c))
                /\ BlockRef_merge(a, a) = a
    /\ \A i \in 1..Len(refs.log) : \E row \in blockRefTable : SameRef(row, refs.log[i])

\* C12's case: one row received deleted=true then deleted=false, another
\* deleted=false then deleted=true, and both are deleted
C12_Witness ==
    \E i, j, k, l \in 1..Len(refs.log) :
        /\ i < j /\ k < l /\ i # k
        /\ SameRef(refs.log[i], refs.log[j]) /\ SameRef(refs.log[k], refs.log[l])
        /\ ~SameRef(refs.log[i], refs.log[k])
        /\ refs.log[i].deleted /\ ~refs.log[j].deleted
        /\ ~refs.log[k].deleted /\ refs.log[l].deleted
        /\ \A row \in blockRefTable : row.deleted

Live(opt) == IF opt = None THEN FALSE ELSE ~opt.val.deleted

DeleteDuringUpload ==
    /\ put.result = "Ok" /\ put.guard = "cancelled"
    /\ del.pc = "done" /\ DeleteFound /\ del.results[1].result.ok
    /\ net = {}
    /\ \E v \in del.object.val.versions :
           v.uuid = put.version_uuid /\ v.state.st = "Uploading"

\* C14: after a streamed PUT and a delete that read the upload as Uploading
\* have both finished and every insert is merged, each replica holds the
\* upload's version, Complete, and the delete marker as two versions; when
\* the marker's timestamp is the greater, the marker is the newest Complete
\* version.
C14_DeleteDuringUpload ==
    DeleteDuringUpload =>
        \A r \in Replicas :
            LET vs == objTable[r][PutKey].versions
            IN  /\ \E v \in vs :
                       /\ v.uuid = put.version_uuid
                       /\ v.timestamp = put.version_timestamp
                       /\ v.state.st = "Complete"
                       /\ v.state.data.kind = "FirstBlock"
                /\ ObjectVersion(del.del_uuid, del.del_timestamp, Complete(DeleteMarker))
                       \in vs
                /\ del.del_uuid # put.version_uuid
                /\ del.del_timestamp > put.version_timestamp =>
                       NewestVersion({v \in vs : v.state.st = "Complete"}).uuid
                           = del.del_uuid

\* C14's case, on a key that already held versions, the marker dated after
\* the upload
C14_Witness ==
    /\ DeleteDuringUpload
    /\ del.del_timestamp > put.version_timestamp
    /\ \A r \in Replicas : Cardinality(objTable[r][PutKey].versions) >= 4

\* a text without its leading and trailing double quotes
StripQuotes(str) ==
    LET kept == {i \in 1..Len(str) : str[i] # QuoteChar}
    IN  IF kept = {} THEN <<>>
        ELSE SubSeq(str, CHOOSE i \in kept : \A j \in kept : i <= j,
                         CHOOSE i \in kept : \A j \in kept : j <= i)

Sha256Mismatch ==
    cin.content_sha256 # None /\ cin.content_sha256.val # cin.data_sha256sum

Md5Mismatch ==
    /\ cin.content_md5 # None
    /\ StripQuotes(cin.content_md5.val) # BASE64_STANDARD_encode(cin.data_md5sum)

\* C15: ensure_checksum_matches fails on a SHA-256 mismatch whatever the MD5
\* expectation; otherwise it fails on a mismatch between the Content-MD5 text
\* stripped of its surrounding double quotes and the base64 of the computed
\* MD5; otherwise, and when neither is supplied, it succeeds.
C15_Sha256BeforeMd5 ==
    cout # "none" =>
        cout = (IF Sha256Mismatch
                THEN "BadRequest: Unable to validate x-amz-content-sha256"
                ELSE IF Md5Mismatch
                     THEN "BadRequest: Unable to validate content-md5"
                     ELSE "Ok")

\* C15's case: both expectations are wrong, the MD5 one quoted, and the
\* failure names the SHA-256
C15_Witness ==
    /\ cout = "BadRequest: Unable to validate x-amz-content-sha256"
    /\ Sha256Mismatch /\ Md5Mismatch
    /\ Len(cin.content_md5.val) = MaxHeaderLen
    /\ cin.content_md5.val[1] = QuoteChar

\* put_blocks returned the error of a failed write
WriteFailureReturned ==
    /\ pipe # None
    /\ pipe.wr.st = "done"
    /\ pipe.wr.res = "InternalError: write"

\* C16: when put_blocks returns the error of a failed write, no write of its
\* queue is left unfinished: each was awaited to its result.
C16_WriteFailureAwaitsInFlight ==
    WriteFailureReturned =>
        \A i \in 1..Len(pipe.wr.futs) : pipe.wr.futs[i].st # "run"

\* the Version row of the PUT is in the version table
VersionRowPresent == \E row \in versionTable : row.uuid = put.version_uuid

\* a write of a block has been started: a write future exists, or one of its
\* requests has taken effect
BlockWriteIssued ==
    \/ blockRefTable # {}
    \/ blockStore # {}
    \/ \E row \in versionTable : row.blocks # {}
    \/ IF pipe = None THEN FALSE ELSE pipe.wr.futs # <<>>

\* C17: a block write of a streamed PUT (BlockRef insert, block RPC, Version
\* insert with a block) is started only once the insert of the empty Version
\* row has succeeded; until then, and for ever when it fails, there is no
\* BlockRef, no stored block and no pipeline.
C17_VersionRowBeforeBlockRefs ==
    /\ BlockWriteIssued => VersionRowPresent
    /\ put.pc \in {"first_block", "inline_quota", "inline_insert",
                    "uploading_insert", "version_insert"} =>
           ~BlockWriteIssued /\ ~VersionRowPresent /\ pipe = None
    /\ (put.pc = "done" /\ ~VersionRowPresent) => ~BlockWriteIssued

\* C17's case: a BlockRef of the upload is in its table while the Version
\* row is still the empty one
C17_Witness ==
    /\ \E ref \in blockRefTable : ref.version = put.version_uuid
    /\ \E row \in versionTable : row.uuid = put.version_uuid /\ row.blocks = {}

\* C18: the block entries of the Version row are committed in plaintext-offset
\* order: while the Version insert of a write in the queue is still to take
\* effect, the row holds no entry of a later offset.
C18_VersionBlocksInOffsetOrder ==
    pipe # None =>
        \A i \in 1..Len(pipe.wr.futs) :
            LET f == pipe.wr.futs[i]
            IN  (f.st = "run" /\ "version_insert" \in f.todo) =>
                    \A row \in versionTable : \A b \in row.blocks :
                        row.uuid = put.version_uuid => b.offset < f.offset

\* the blocks held by the channels and the queue of writes of the pipeline
BlocksHeld == Len(pipe.ch1) + Len(pipe.ch2) + Len(pipe.ch3) + Len(pipe.wr.futs)

\* C19: the writer never has more than PUT_BLOCKS_MAX_PARALLEL writes in its
\* queue, so it receives no block while that many are in flight; with the
\* channels holding at most 2, 1 and 1 items, this bounds the blocks held.
C19_WritesInFlightBounded ==
    pipe # None =>
        /\ Len(pipe.wr.futs) <= PUT_BLOCKS_MAX_PARALLEL
        /\ Len(pipe.ch1) <= CH1_CAPACITY
        /\ Len(pipe.ch2) <= CH2_CAPACITY
        /\ Len(pipe.ch3) <= CH3_CAPACITY
        /\ BlocksHeld <= CH1_CAPACITY + CH2_CAPACITY + CH3_CAPACITY
                            + PUT_BLOCKS_MAX_PARALLEL

\* C19's case: the writer in its loop with PUT_BLOCKS_MAX_PARALLEL writes
\* in flight, none ended, and a block waiting in its channel
C19_Witness ==
    /\ pipe # None
    /\ pipe.wr.st = "loop"
    /\ Len(pipe.wr.futs) = PUT_BLOCKS_MAX_PARALLEL
    /\ \A i \in 1..Len(pipe.wr.futs) : pipe.wr.futs[i].st = "run"
    /\ pipe.ch3 # <<>>

\* the Complete insert of the streamed path has been sent for the PUT's uuid
CompleteIssued ==
    \E v \in IssuedVersions : v.state.st = "Complete" /\ v.state.data.kind = "FirstBlock"

UploadingIssued == \E v \in IssuedVersions : v.state.st = "Uploading"

\* every block of the body has been written: its Version entry, its stored
\* block and its BlockRef are there
AllBlocksWritten ==
    /\ Cardinality(VersionBlocks) = Len(ChunkerBlocks)
    /\ \A b \in VersionBlocks :
           /\ \E x \in blockStore : x.hash = b.hash
           /\ \E ref \in blockRefTable :
                  ref.block = b.hash /\ ref.version = put.version_uuid /\ ~ref.deleted

\* the digests of the body against the request's headers
BodyChecksum ==
    ensure_checksum_matches(md5(BodyBytes(body)), sha256sum(BodyBytes(body)),
                            req.content_md5, req.content_sha256)

\* the quota check with the size of the whole body
BodyQuota ==
    check_quotas(Len(BodyBytes(body)), put.existing, req.quotas, req.counters)

\* a streamed upload whose x-amz-content-sha256 is not the body's
Sha256MismatchStreamed ==
    /\ UploadingIssued
    /\ req.content_sha256 # None
    /\ req.content_sha256.val # sha256sum(BodyBytes(body))

\* C20: on the streamed path the Complete insert is sent only after every
\* block write succeeded, then the digests were verified, then the quota check
\* with the final size passed: a digest error is returned only with every
\* block written, a quota error only with the digests verified as well. With a
\* wrong x-amz-content-sha256 no Complete insert is ever sent, the cleanup is
\* spawned when save_stream ends, and once its insert has merged at a replica
\* the version is Aborted there.
C20_CompleteAfterWritesDigestsQuota ==
    /\ CompleteIssued =>
           AllBlocksWritten /\ BodyChecksum = "Ok" /\ BodyQuota = "Ok"
    /\ (UploadingIssued /\ put.pc = "final_quota") =>
           AllBlocksWritten /\ BodyChecksum = "Ok"
    /\ (UploadingIssued /\ put.result \in {"Forbidden", "Err"}) =>
           AllBlocksWritten /\ BodyChecksum = "Ok"
    /\ (UploadingIssued /\ put.result \in
            {"BadRequest: Unable to validate x-amz-content-sha256",
             "BadRequest: Unable to validate content-md5"}) =>
           AllBlocksWritten /\ put.result = BodyChecksum
    /\ Sha256MismatchStreamed =>
           /\ ~CompleteIssued
           /\ put.pc = "done" => cleanup \in {"spawned", "issued"}
           /\ cleanup = "issued" => AbortedIssued
           /\ \A r \in Replicas :
                  TombstoneMerged(r) =>
                      /\ VersionsOf(r, put.version_uuid) # {}
                      /\ \A v \in VersionsOf(r, put.version_uuid) :
                             v.state.st = "Aborted"

\* C20's case: two blocks written, a wrong x-amz-content-sha256 and a quota
\* that would refuse the object: the digest error is the one returned, and
\* the tombstone has merged at every replica
C20_Witness ==
    /\ Sha256MismatchStreamed
    /\ Len(ChunkerBlocks) = 2 /\ AllBlocksWritten
    /\ BodyQuota # "Ok"
    /\ put.result = "BadRequest: Unable to validate x-amz-content-sha256"
    /\ \A r \in Replicas : TombstoneMerged(r)

\* C21: the join over the four stages of read_and_put_blocks always ends:
\* once the pipeline runs, read_and_put_blocks eventually returns.
C21_JoinTerminates == PipeRunning ~> ~PipeRunning

\* C22: the unwraps of the pipeline never fail: no save_stream ends by a
\* panic, and an encrypt-and-hash stage that has ended has recorded a
\* first_block_hash.
C22_UnwrapsNeverFail ==
    /\ put.result # "Panic"
    /\ IF pipe = None THEN TRUE
       ELSE pipe.en.st = "done" => pipe.en.first_block_hash # None

\* the rows of hash h that are not deleted
LiveRows(h) == {row \in blockRefTable : row.block = h /\ ~row.deleted}

\* C23: after any sequence of inserts into the BlockRef table, replays
\* included, in which no block_incref or block_decref failed, for each hash
\* the block_incref calls minus the block_decref calls are the number of rows
\* of the hash that are not deleted, as is the count the block manager holds,
\* and neither is negative.
C23_RefcountIsLiveRows ==
    refs.failures = 0 =>
        \A h \in Hashes :
            /\ refs.increfs[h] - refs.decrefs[h] = Cardinality(LiveRows(h))
            /\ refs.rc[h] = Cardinality(LiveRows(h))
            /\ refs.increfs[h] - refs.decrefs[h] >= 0

\* C23's case: a hash referenced by two versions, one of them deleted and
\* then replayed live, with no failed call: one row is left live
C23_Witness ==
    /\ refs.failures = 0
    /\ \E h \in Hashes :
           /\ refs.increfs[h] = 2 /\ refs.decrefs[h] = 1
           /\ Cardinality(LiveRows(h)) = 1
           /\ \E i, j \in 1..Len(refs.log) :
                  /\ i < j /\ SameRef(refs.log[i], refs.log[j])
                  /\ refs.log[i].block = h
                  /\ refs.log[i].deleted /\ ~refs.log[j].deleted

\* save_stream took the inline branch: the version has its identity and the
\* first block is shorter than INLINE_THRESHOLD
InlineTaken ==
    /\ put # None
    /\ put.version_uuid # ZeroUuid
    /\ Len(put.first_block) < INLINE_THRESHOLD

\* C24: when save_stream takes the inline branch with a block_size of at
\* least INLINE_THRESHOLD, the chunker has read its upstream to the end
\* without error and its buffer is empty: the first block is the whole body,
\* and the inline version sent holds the body and its length.
C24_InlineHoldsWholeBody ==
    (InlineTaken /\ block_size >= INLINE_THRESHOLD) =>
        /\ chunker.read_all /\ chunker.buf = <<>> /\ chunker.stream = <<>>
        /\ ErrorFree(body)
        /\ put.first_block = BodyBytes(body)
        /\ \A v \in InlineVersions :
               /\ v.state.data.size = Len(BodyBytes(body))
               /\ decrypt(req.encryption, v.state.data.bytes) = BodyBytes(body)

\* C24's case: a body that is not empty went inline with a block_size above
\* INLINE_THRESHOLD, and save_stream returned Ok
C24_Witness ==
    /\ InlineTaken /\ block_size > INLINE_THRESHOLD
    /\ put.result = "Ok"
    /\ InlineVersions # {}
    /\ BodyBytes(body) # <<>>

\* the newest timestamp among the versions of a read object, 0 for none
NewestTimestamp(object) ==
    IF object = None THEN 0
    ELSE LET ts == {v.timestamp : v \in object.val.versions} \cup {0}
         IN  CHOOSE x \in ts : \A y \in ts : y <= x

ExpectedTimestamp(object, now) ==
    IF object = None THEN now
    ELSE IF object.val.versions = {} THEN now
    ELSE Max(now, NewestTimestamp(object) + 1)

\* C8: the timestamp chosen for a new version, by a PUT or for a delete
\* marker, is greater than the timestamp of every version of the object read
\* for the request: it is max(now, newest + 1), and now when no version was
\* read.
C8_TimestampAboveRead ==
    /\ put.version_uuid # ZeroUuid =>
          /\ put.version_timestamp = ExpectedTimestamp(put.existing, put.now)
          /\ put.existing # None =>
                \A v \in put.existing.val.versions : put.version_timestamp > v.timestamp
    /\ del.del_uuid # ZeroUuid =>
          /\ del.del_timestamp = ExpectedTimestamp(del.object, del.now)
          /\ \A v \in del.object.val.versions : del.del_timestamp > v.timestamp

\* C8's case: the PUT and the delete each read versions no older than their
\* clock, the PUT's read holding the delete's marker
C8_Witness ==
    /\ put.version_uuid # ZeroUuid /\ del.del_uuid # ZeroUuid
    /\ put.existing # None /\ NewestTimestamp(put.existing) >= put.now
    /\ NewestTimestamp(del.object) >= del.now
    /\ \E v \in put.existing.val.versions : v.uuid = del.del_uuid

\* the blocks of the Ok(Some(block)) results among the calls made so far
ReturnedBlocks ==
    LET some == SelectSeq(returned, LAMBDA r : r.res = "Ok" /\ r.block # None)
    IN  [i \in 1..Len(some) |-> some[i].block.val]

\* C5: over an upstream that ends without error, the calls of next() return
\* blocks of exactly block_size bytes, except the last which holds between 1
\* and block_size bytes, then None and nothing after it; the blocks
\* concatenated are the upstream chunks concatenated.
C5_ChunkerRechunks ==
    (ErrorFree(body) /\ ChunkerEnded) =>
        LET n == Len(returned) - 1
        IN  /\ returned[n + 1] = [res |-> "Ok", block |-> None]
            /\ \A i \in 1..n : returned[i].res = "Ok" /\ returned[i].block # None
            /\ \A i \in 1..n - 1 : Len(ReturnedBlocks[i]) = block_size
            /\ n > 0 => Len(ReturnedBlocks[n]) \in 1..block_size
            /\ Concat(ReturnedBlocks) = BodyBytes(body)

\* C5's case: an upstream with an empty chunk, re-chunked into several blocks
\* of which the last is short
C5_Witness ==
    /\ ErrorFree(body) /\ ChunkerEnded
    /\ \E i \in 1..Len(body) : body[i].bytes = <<>>
    /\ Len(ReturnedBlocks) >= 2
    /\ Len(ReturnedBlocks[Len(ReturnedBlocks)]) < block_size
    /\ \E i \in 1..Len(body) : Len(body[i].bytes) > block_size

\* C7: with the counters read, check_quotas answers Forbidden exactly when the
\* object count grows past max_objects or the byte count grows past max_size,
\* and Ok otherwise; an overwrite that does not grow is accepted over quota.
C7_QuotaDecision ==
    (qout # "none" /\ qin.counters.ok) =>
        LET d_objects == 1 - (IF qin.prev_object # None THEN 1 ELSE 0)
            d_bytes == qin.size
                         - (IF qin.prev_object # None
                            THEN TotalSize(qin.prev_object.val.versions) ELSE 0)
            mo == qin.quotas.max_objects
            ms == qin.quotas.max_size
            reject ==
                \/ mo # None /\ d_objects > 0
                     /\ qin.counters.objects + d_objects > mo.val
                \/ ms # None /\ d_bytes > 0
                     /\ qin.counters.bytes + d_bytes > ms.val
        IN  /\ qout = "Forbidden" <=> reject
            /\ qout = "Ok" <=> ~reject

\* C7's case: a bucket over both quotas accepts an overwrite that does not grow
C7_Witness ==
    /\ qout = "Ok"
    /\ qin.counters.ok
    /\ qin.prev_object # None /\ qin.size <= TotalSize(qin.prev_object.val.versions)
    /\ qin.quotas.max_objects # None /\ qin.quotas.max_size # None
    /\ qin.counters.objects > qin.quotas.max_objects.val
    /\ qin.counters.bytes > qin.quotas.max_size.val

\* the Error entry and the Deleted entry the batch response owes a result
ErrorEntry(r) == [code |-> r.result.err, key |-> r.key, message |-> r.result.err]
DeletedEntry(r) ==
    [key |-> r.key, version_id |-> r.result.val[1],
     delete_marker_version_id |-> r.result.val[2]]

RECURSIVE MapSeq(_, _)
MapSeq(F(_), q) == IF q = <<>> THEN <<>> ELSE <<F(Head(q))>> \o MapSeq(F, Tail(q))

\* C9 as stated: handle_delete answers 204 NoContent for every outcome of the
\* internal delete.
C9_Always204 ==
    (del.mode = "single" /\ del.pc = "done") => del.response = "204 NoContent"

\* C9 amended: handle_delete answers 204 NoContent when the internal delete
\* succeeds or reports NoSuchKey, and returns the error of any other failure.
C9_204UnlessOtherError ==
    (del.mode = "single" /\ del.pc = "done") =>
        LET result == del.results[1].result
        IN  IF result.ok \/ result.err = "NoSuchKey"
            THEN del.response = "204 NoContent"
            ELSE del.response = result.err /\ del.response # "204 NoContent"

\* C9's case: a DELETE of a key the object table does not hold
C9_Witness ==
    /\ del.mode = "single" /\ del.pc = "done"
    /\ del.results[1].result = ErrResult("NoSuchKey")
    /\ del.response = "204 NoContent"
    /\ \A r \in Replicas : ~objTable[r][del.keys[1]].present

\* C10: a batch delete calls the internal delete for every key in request
\* order whatever the earlier keys' outcomes; at its end the response lists one
\* Error entry per failing key and, unless quiet, one Deleted entry per
\* succeeding key, and the batch itself has not failed.
C10_BatchDelete ==
    /\ del.mode = "batch" =>
          /\ Len(del.results) <= Len(del.keys)
          /\ \A i \in 1..Len(del.results) : del.results[i].key = del.keys[i]
          /\ del.pc # "done" => del.i = Len(del.results) + 1
    /\ (del.mode = "batch" /\ del.pc = "done") =>
          /\ Len(del.results) = Len(del.keys)
          /\ del.response = "DeleteResult"
          /\ del.ret_errors =
                MapSeq(ErrorEntry, SelectSeq(del.results, LAMBDA r : ~r.result.ok))
          /\ del.ret_deleted =
                IF del.quiet THEN <<>>
                ELSE MapSeq(DeletedEntry, SelectSeq(del.results, LAMBDA r : r.result.ok))

\* C10's case: three keys of which the middle one fails in the table layer
C10_Witness ==
    /\ del.mode = "batch" /\ del.pc = "done" /\ ~del.quiet
    /\ Len(del.keys) = 3
    /\ del.results[1].result.ok
    /\ del.results[2].result = ErrResult("InternalError")
    /\ del.results[3].result.ok
    /\ Len(del.ret_deleted) = 2 /\ Len(del.ret_errors) = 1
    /\ del.ret_errors[1].key = del.keys[2]

====
